---- MODULE Spec2Model ----
(***************************************************************************)
(* State-machine model of the binance-futures-tracker backend              *)
(* (src/backend/server/index.js): the coins registry and the market_data   *)
(* table held in Postgres, the Express routes that read and write them,    *)
(* and the periodic fetch cycle with its retention prune.                  *)
(*                                                                         *)
(* market_data is kept per symbol in the order of the unique index         *)
(* uq_market_symbol_timestamp, i.e. ascending by timestamp; the id column  *)
(* is never read by the program and is left out.  NUMERIC values and       *)
(* timestamps are integers small enough to be exact as JS numbers.         *)
(***************************************************************************)
EXTENDS Integers, Sequences, FiniteSets, TLC

VARIABLES
    coins,        \* table coins: the set of tracked symbols
    market_data,  \* table market_data: symbol -> rows in (symbol, timestamp) index order
    now,          \* the wall clock read by Date.now()
    cycles,       \* the runs of runFetchCycle started by the timer
    pending,      \* POST /api/market-data/fetch requests between fetch and store
    res,          \* the last HTTP response sent
    nreq,         \* number of HTTP requests handled so far
    pager,        \* a client paging backwards with the before cursor
    proc,         \* the server process: "starting" until initSchema settles, "serving", "exited"
    ui,           \* the state of the React client: App and the open CoinDetail
    call          \* a call of fetchBinanceData followed request by request

vars == <<coins, market_data, now, cycles, pending, res, nreq, pager, proc, ui, call>>

----------------------------------------------------------------------------
(* Bounds of the model *)

MaxTicks == 1        \* clock ticks in one behaviour
MaxCycles == 1       \* runs of runFetchCycle in one behaviour
MaxRequests == 2     \* HTTP requests in one behaviour
MaxOverlap == 2      \* overlapping runs of runFetchCycle in the upsert races
MaxStored == 3       \* largest timestamp of the rows drawn for a small store
MaxPages == 4        \* pages one client fetches backwards
MaxFailed == 5       \* consecutive failed polls of the client that are counted
MaxGroups == 2       \* custom groups the user has at one time
MaxListed == 3       \* entries in the coinSymbols of one group

----------------------------------------------------------------------------
(* Program constants *)

RETENTION_MS == 7 * 24 * 60 * 60 * 1000
DEFAULT_LIMIT == 100
MAX_LIMIT == 500

\* The clock starts late enough for the prune cutoff (now - RETENTION_MS) to be positive.
StartTime == RETENTION_MS + 2

\* Symbols as clients send them; "b" is "B" in lower case.
Symbols == {"A", "B", "b"}
NoSymbol == ""

toUpperCase(s) == IF s = "b" THEN "B" ELSE s

\* The values of one observation.
V1 == [price |-> 50, openInterest |-> 10, fundingRate |-> 1]
V2 == [price |-> 51, openInterest |-> 11, fundingRate |-> 2]
Vals == {V1, V2}

MkPoint(ts, v) ==
    [timestamp |-> ts, openInterest |-> v.openInterest,
     fundingRate |-> v.fundingRate, price |-> v.price]

Min(a, b) == IF a < b THEN a ELSE b

Reverse(s) == [i \in 1..Len(s) |-> s[Len(s) + 1 - i]]

----------------------------------------------------------------------------
(* The store: SQL statements as operators on the tables *)

\* The row INSERT INTO market_data(symbol, timestamp, open_interest, funding_rate, price) builds.
toRow(symbol, point) ==
    [symbol |-> symbol, timestamp |-> point.timestamp,
     open_interest |-> point.openInterest,
     funding_rate |-> point.fundingRate, price |-> point.price]

\* Map a DB row to a MarketDataPoint.
toPoint(r) ==
    [timestamp |-> r.timestamp, openInterest |-> r.open_interest,
     fundingRate |-> r.funding_rate, price |-> r.price]

\* Variant: no unique index, so no insert ever conflicts.
NoUniqueIndex(md, symbol, ts) == FALSE

\* The unique index on (symbol, timestamp): is there a row with this key?
Conflict(md, symbol, ts) ==
    \E i \in 1..Len(md[symbol]) : md[symbol][i].timestamp = ts

\* Variant: market_data.symbol without the reference to coins.
NoForeignKey(cs, symbol) == TRUE

\* symbol REFERENCES coins(symbol): the insert is rejected for an untracked symbol.
ForeignKeyOk(cs, symbol) == symbol \in cs

\* Place a row in index order.
InsertRow(rows, r) ==
    SelectSeq(rows, LAMBDA q : q.timestamp < r.timestamp) \o <<r>> \o
    SelectSeq(rows, LAMBDA q : q.timestamp >= r.timestamp)

\* Variant: ON CONFLICT (symbol, timestamp) DO UPDATE, the last write wins.
InsertOrOverwrite(md, symbol, point) ==
    IF Conflict(md, symbol, point.timestamp)
    THEN [md EXCEPT ![symbol] =
             [i \in 1..Len(@) |-> IF @[i].timestamp = point.timestamp
                                  THEN toRow(symbol, point) ELSE @[i]]]
    ELSE [md EXCEPT ![symbol] = InsertRow(md[symbol], toRow(symbol, point))]

\* Variant: ON CONFLICT (symbol, timestamp) DO UPDATE SET price = EXCLUDED.price.
InsertOrUpdatePrice(md, symbol, point) ==
    IF Conflict(md, symbol, point.timestamp)
    THEN [md EXCEPT ![symbol] =
             [i \in 1..Len(@) |-> IF @[i].timestamp = point.timestamp
                                  THEN [@[i] EXCEPT !.price = point.price] ELSE @[i]]]
    ELSE [md EXCEPT ![symbol] = InsertRow(md[symbol], toRow(symbol, point))]

\* Variant: a sample is also dropped when a row of the symbol holds the same values.
InsertDistinctValues(md, symbol, point) ==
    IF \/ Conflict(md, symbol, point.timestamp)
       \/ \E k \in 1..Len(md[symbol]) :
             toPoint(md[symbol][k]) = [point EXCEPT !.timestamp = md[symbol][k].timestamp]
    THEN md
    ELSE [md EXCEPT ![symbol] = InsertRow(md[symbol], toRow(symbol, point))]

\* INSERT ... ON CONFLICT (symbol, timestamp) DO NOTHING: the table afterwards.
InsertOnConflictDoNothing(md, symbol, point) ==
    IF Conflict(md, symbol, point.timestamp)
    THEN md
    ELSE [md EXCEPT ![symbol] = InsertRow(md[symbol], toRow(symbol, point))]

\* storePoint resolves iff the store executes the statement and the foreign key holds.
storePointOk(cs, symbol, up) == up /\ ForeignKeyOk(cs, symbol)

\* market_data after storePoint(symbol, point).
storePoint(cs, md, symbol, point, up) ==
    IF storePointOk(cs, symbol, up)
    THEN InsertOnConflictDoNothing(md, symbol, point)
    ELSE md

\* DELETE FROM coins WHERE symbol = $1, with ON DELETE CASCADE on market_data.
DeleteCascade(md, symbol) ==
    IF symbol \in DOMAIN md THEN [md EXCEPT ![symbol] = <<>>] ELSE md

\* Variant: DELETE FROM market_data WHERE timestamp <= $1.
DeleteUpTo(md, cutoff) ==
    [s \in DOMAIN md |-> SelectSeq(md[s], LAMBDA r : r.timestamp > cutoff)]

\* DELETE FROM market_data WHERE timestamp < $1.
DeleteOlderThan(md, cutoff) ==
    [s \in DOMAIN md |-> SelectSeq(md[s], LAMBDA r : r.timestamp >= cutoff)]

\* All rows of the table, and the keys stored for a symbol.
RowsOf(md, symbol) == IF symbol \in DOMAIN md THEN md[symbol] ELSE <<>>
StoredTimes(md, symbol) == {RowsOf(md, symbol)[i].timestamp : i \in 1..Len(RowsOf(md, symbol))}
RowCount(md, symbol, ts) ==
    Cardinality({i \in 1..Len(RowsOf(md, symbol)) : RowsOf(md, symbol)[i].timestamp = ts})

EmptyTable == [s \in Symbols |-> <<>>]

----------------------------------------------------------------------------
(* Query strings and their JavaScript conversions *)

\* A query parameter: absent, the empty string, a non-numeric text, or the decimal text of an integer.
Absent == [kind |-> "absent", val |-> 0]
Empty == [kind |-> "empty", val |-> 0]
Text == [kind |-> "text", val |-> 0]
IntParam(n) == [kind |-> "int", val |-> n]

\* A JavaScript number: an integer or NaN.
NaN == [nan |-> TRUE, val |-> 0]
JsNum(n) == [nan |-> FALSE, val |-> n]

\* parseInt(String(p)): String(undefined) is "undefined", which does not parse.
parseInt(p) == IF p.kind = "int" THEN JsNum(p.val) ELSE NaN

\* Truthiness of a query parameter: undefined and "" are falsy, any other string is truthy.
Truthy(p) == p.kind \in {"text", "int"}

\* const limit = Math.min(parseInt(String(req.query.limit)) || 100, 500)
limitOf(req) ==
    LET n == parseInt(req.limit)
    IN  Min(IF n.nan \/ n.val = 0 THEN DEFAULT_LIMIT ELSE n.val, MAX_LIMIT)

\* const before = req.query.before ? parseInt(String(req.query.before)) : null
beforeOf(req) ==
    IF Truthy(req.before)
    THEN [null |-> FALSE, num |-> parseInt(req.before)]
    ELSE [null |-> TRUE, num |-> NaN]

----------------------------------------------------------------------------
(* GET /api/market-data *)

\* Variant: ORDER BY timestamp ASC.
OrderByTimestampAsc(rows) == rows

\* ORDER BY timestamp DESC: the rows of one symbol come in index order, ascending by
\* timestamp, and are read backwards.
OrderByTimestampDesc(rows) == Reverse(rows)

\* LIMIT k, for k >= 0
Limit(rows, k) == SubSeq(rows, 1, Min(k, Len(rows)))

\* Variant: the cursor compared with <=.
SelectBeforeInclusive(md, symbol, before, limit) ==
    Limit(OrderByTimestampDesc(
              SelectSeq(RowsOf(md, symbol), LAMBDA r : r.timestamp <= before)), limit)

\* SELECT ... WHERE symbol = $1 AND timestamp < $2 ORDER BY timestamp DESC LIMIT $3
SelectBefore(md, symbol, before, limit) ==
    Limit(OrderByTimestampDesc(
              SelectSeq(RowsOf(md, symbol), LAMBDA r : r.timestamp < before)), limit)

\* Variant: the oldest rows first, ORDER BY timestamp ASC LIMIT $2, flipped by the caller.
SelectOldest(md, symbol, limit) ==
    Reverse(Limit(RowsOf(md, symbol), limit))

\* SELECT ... WHERE symbol = $1 ORDER BY timestamp DESC LIMIT $2
SelectLatest(md, symbol, limit) ==
    Limit(OrderByTimestampDesc(RowsOf(md, symbol)), limit)

\* Postgres rejects a negative LIMIT and a bigint parameter that is NaN;
\* the statement also fails when the store cannot be reached.
SelectFails(before, limit, up) ==
    \/ ~up
    \/ limit < 0
    \/ ~before.null /\ before.num.nan

\* Variant: the selected rows sent as the statement returns them, newest first.
selectedRowsDesc(md, symbol, before, limit) ==
    IF before.null
    THEN SelectLatest(md, symbol, limit)
    ELSE SelectBefore(md, symbol, before.num.val, limit)

\* The rows the handler sends: the selected rows flipped back to ascending order.
selectedRows(md, symbol, before, limit) ==
    IF before.null
    THEN Reverse(SelectLatest(md, symbol, limit))
    ELSE Reverse(SelectBefore(md, symbol, before.num.val, limit))

MapToPoint(rows) == [i \in 1..Len(rows) |-> toPoint(rows[i])]

Response(route, req, status, body, queried) ==
    [route |-> route, req |-> req, status |-> status, body |-> body, queried |-> queried]

NoResponse == Response("none", <<>>, 0, <<>>, FALSE)

\* The handler of GET /api/market-data; queried tells whether pool.query was called.
getMarketData(md, req, up) ==
    IF req.symbol = NoSymbol
    THEN Response("GET /api/market-data", req, 400, <<>>, FALSE)
    ELSE IF SelectFails(beforeOf(req), limitOf(req), up)
    THEN Response("GET /api/market-data", req, 500, <<>>, TRUE)
    ELSE Response("GET /api/market-data", req, 200,
                  MapToPoint(selectedRows(md, req.symbol, beforeOf(req), limitOf(req))), TRUE)

\* The routes registered on the Express app; a request to any other path gets 404.
Routes ==
    {"GET /api/coins", "POST /api/coins", "DELETE /api/coins/:symbol",
     "POST /api/market-data", "POST /api/market-data/fetch", "GET /api/market-data"}

\* dbService.getMarketDataRange asks for this route.
RangeRoute == "GET /api/market-data/range"

routeStatus(route) == IF route \in Routes THEN 200 ELSE 404

----------------------------------------------------------------------------
(* fetchBinanceData *)

\* Status codes the three Binance endpoints answer with.
Statuses == {200, 429}

\* Response.ok
ok(status) == 200 <= status /\ status <= 299

\* Variant: the status of the funding-rate request is not looked at.
fetchResolvesWithoutFunding(o) ==
    o.answered /\ ok(o.statuses[1]) /\ ok(o.statuses[2]) /\ o.parsed

\* fetchBinanceData(symbol) yields a point iff the three requests are answered,
\* all three with a success status, and the three bodies parse.
fetchResolves(o) ==
    o.answered /\ ok(o.statuses[1]) /\ ok(o.statuses[2]) /\ ok(o.statuses[3]) /\ o.parsed

\* The point it yields: the capture time is Date.now() after the bodies are read.
fetchedPoint(t, v) == MkPoint(t, v)

\* The error it throws: its own, whose message carries the three status codes, when a
\* request is answered without success; else that of fetch() or of json().
fetchError(o) ==
    IF ~o.answered
    THEN [message |-> "fetch failed", statuses |-> <<>>]
    ELSE IF ~(ok(o.statuses[1]) /\ ok(o.statuses[2]) /\ ok(o.statuses[3]))
    THEN [message |-> "Binance request failed", statuses |-> o.statuses]
    ELSE [message |-> "Unexpected token", statuses |-> <<>>]

\* The outcome of fetchBinanceData at time t: the point it returns or the error it throws.
fetchBinanceData(o, t, v) ==
    IF fetchResolves(o)
    THEN [kind |-> "sample", point |-> fetchedPoint(t, v), error |-> <<>>]
    ELSE [kind |-> "error", point |-> <<>>, error |-> fetchError(o)]

----------------------------------------------------------------------------
(* Initial state: the process has started on a database that tracks A and B *)

NoPoint == MkPoint(0, V1)
IdleCycle == [pc |-> "idle", tasks |-> <<>>]
IdlePager == [active |-> FALSE, first |-> <<>>, got |-> <<>>, pages |-> 0]

\* No call of fetchBinanceData is being followed.
NoCall ==
    [pc |-> "idle", symbol |-> NoSymbol, v |-> V1, calledAt |-> 0,
     statuses |-> <<0, 0, 0>>, resAt |-> <<0, 0, 0>>, bodyAt |-> <<0, 0, 0>>]

\* null, for a client state that holds a timestamp or null.
Null == -1

\* The delay of the client's polling loop between two polls that do not fail.
REFRESH_INTERVAL_MS == 60000

\* No poll of the client is in flight.
NoPoll == [pc |-> "idle", coins |-> {}, body |-> <<>>]

\* The client when App has mounted and before its init effect has run, with CoinDetail
\* as it is when a symbol is selected: nothing loaded, the data prop empty.  marketData
\* is the entry of A in App's marketData and hasEntry tells whether marketData has the
\* key A.  The polling effect has set the first timer: timer tells whether a timeout
\* for poll is pending and delay is the delay it was set with.  poll is the run of poll
\* in flight.  failed counts the polls that ended in the catch branch since the last
\* poll that applied its updates, up to MaxFailed.  adding is the symbol whose history
\* addCoin is loading.  groups are the coin groups in their order, each with its id and
\* its coinSymbols; nothing was saved in localStorage.  trackedCoins is kept as the set
\* of its members.  symbol is the symbol CoinDetail shows and loads are the requests
\* of loadMore that are not answered yet, each with its symbol and its cursor.
IdleUi ==
    [historicalData |-> <<>>, data |-> <<>>, isLoadingMore |-> FALSE, hasMore |-> TRUE,
     earliestFetched |-> Null, symbol |-> "A", loads |-> {},
     initialised |-> FALSE, trackedCoins |-> {}, marketData |-> <<>>,
     isConnected |-> TRUE, backoffIndex |-> 0,
     mounted |-> TRUE, timer |-> TRUE, delay |-> REFRESH_INTERVAL_MS, poll |-> NoPoll,
     failed |-> 0, hasEntry |-> FALSE,
     adding |-> NoSymbol, groups |-> <<>>]

Init ==
    /\ coins = {"A", "B"}
    /\ market_data = EmptyTable
    /\ now = StartTime
    /\ cycles = [c \in 1..MaxCycles |-> IdleCycle]
    /\ pending = {}
    /\ res = NoResponse
    /\ nreq = 0
    /\ pager = IdlePager
    /\ proc = "serving"
    /\ ui = IdleUi
    /\ call = NoCall

----------------------------------------------------------------------------
(* Registry routes *)

\* POST /api/coins
PostCoins(symbol, up) ==
    /\ nreq < MaxRequests
    /\ nreq' = nreq + 1
    /\ IF symbol = NoSymbol
       THEN /\ res' = Response("POST /api/coins", <<>>, 400, <<>>, FALSE)
            /\ coins' = coins
       ELSE IF ~up
       THEN /\ res' = Response("POST /api/coins", <<>>, 500, <<>>, TRUE)
            /\ coins' = coins
       ELSE /\ res' = Response("POST /api/coins", <<>>, 201, [symbol |-> symbol], TRUE)
            /\ coins' = coins \cup {toUpperCase(symbol)}
    /\ UNCHANGED <<proc, ui, call, market_data, now, cycles, pending, pager>>

\* DELETE /api/coins/:symbol
DeleteCoins(symbol, up) ==
    /\ nreq < MaxRequests
    /\ nreq' = nreq + 1
    /\ IF ~up
       THEN /\ res' = Response("DELETE /api/coins/:symbol", <<>>, 500, <<>>, TRUE)
            /\ UNCHANGED <<coins, market_data>>
       ELSE /\ res' = Response("DELETE /api/coins/:symbol", <<>>, 200, [symbol |-> symbol], TRUE)
            /\ coins' = coins \ {symbol}
            /\ market_data' = IF symbol \in coins
                              THEN DeleteCascade(market_data, symbol)
                              ELSE market_data
    /\ UNCHANGED <<proc, ui, call, now, cycles, pending, pager>>

----------------------------------------------------------------------------
(* Write routes *)

BodyFields == {"symbol", "timestamp", "openInterest", "fundingRate", "price"}

\* if (!symbol || timestamp == null || openInterest == null || ...)
missingFields(body) == body.symbol = NoSymbol \/ body.has # BodyFields

\* Variant: a key already taken is answered as a conflict.
PostMarketDataRejectingDuplicates(body, up) ==
    /\ nreq < MaxRequests
    /\ nreq' = nreq + 1
    /\ market_data' = IF missingFields(body) THEN market_data
                      ELSE storePoint(coins, market_data, body.symbol, body.point, up)
    /\ res' = IF missingFields(body)
              THEN Response("POST /api/market-data", body, 400, <<>>, FALSE)
              ELSE IF ~storePointOk(coins, body.symbol, up)
              THEN Response("POST /api/market-data", body, 500, <<>>, TRUE)
              ELSE IF Conflict(market_data, body.symbol, body.point.timestamp)
              THEN Response("POST /api/market-data", body, 409, <<>>, TRUE)
              ELSE Response("POST /api/market-data", body, 201,
                            [symbol |-> body.symbol, timestamp |-> body.point.timestamp], TRUE)
    /\ UNCHANGED <<proc, ui, call, coins, now, cycles, pending, pager>>

\* POST /api/market-data: the response keeps the request body it answers.
PostMarketData(body, up) ==
    /\ nreq < MaxRequests
    /\ nreq' = nreq + 1
    /\ IF missingFields(body)
       THEN /\ res' = Response("POST /api/market-data", body, 400, <<>>, FALSE)
            /\ market_data' = market_data
       ELSE /\ market_data' = storePoint(coins, market_data, body.symbol, body.point, up)
            /\ res' = IF storePointOk(coins, body.symbol, up)
                      THEN Response("POST /api/market-data", body, 201,
                                    [symbol |-> body.symbol, timestamp |-> body.point.timestamp], TRUE)
                      ELSE Response("POST /api/market-data", body, 500, <<>>, TRUE)
    /\ UNCHANGED <<proc, ui, call, coins, now, cycles, pending, pager>>

\* POST /api/market-data/fetch, up to the end of fetchBinanceData
PostFetch(symbol, o, v) ==
    /\ nreq < MaxRequests
    /\ nreq' = nreq + 1
    /\ IF symbol = NoSymbol
       THEN /\ res' = Response("POST /api/market-data/fetch", <<>>, 400, <<>>, FALSE)
            /\ pending' = pending
       ELSE IF ~fetchResolves(o)
       THEN /\ res' = Response("POST /api/market-data/fetch", <<>>, 500, fetchError(o), FALSE)
            /\ pending' = pending
       ELSE /\ pending' = pending \cup {[symbol |-> symbol, point |-> fetchedPoint(now, v)]}
            /\ res' = res
    /\ UNCHANGED <<proc, ui, call, coins, market_data, now, cycles, pager>>

\* Variant: the fetched sample is answered without awaiting the upsert.
PostFetchStoreUnawaited(p, up) ==
    /\ p \in pending
    /\ pending' = pending \ {p}
    /\ market_data' = storePoint(coins, market_data, p.symbol, p.point, up)
    /\ res' = Response("POST /api/market-data/fetch", <<>>, 200, p.point, TRUE)
    /\ UNCHANGED <<proc, ui, call, coins, now, cycles, nreq, pager>>

\* POST /api/market-data/fetch, from storePoint to the response
PostFetchStore(p, up) ==
    /\ p \in pending
    /\ pending' = pending \ {p}
    /\ market_data' = storePoint(coins, market_data, p.symbol, p.point, up)
    /\ res' = IF storePointOk(coins, p.symbol, up)
              THEN Response("POST /api/market-data/fetch", <<>>, 200, p.point, TRUE)
              ELSE Response("POST /api/market-data/fetch", <<>>, 500, <<>>, TRUE)
    /\ UNCHANGED <<proc, ui, call, coins, now, cycles, nreq, pager>>

----------------------------------------------------------------------------
(* runFetchCycle *)

Task(st, point) == [st |-> st, point |-> point]

Settled(task) == task.st \in {"stored", "failed"}

\* Variant: the symbols of the previous run are kept along with those just read.
StartCycleCached(c, up) ==
    /\ cycles[c].pc = "idle"
    /\ \A d \in 1..(c - 1) : cycles[d].pc # "idle"
    /\ cycles' = [cycles EXCEPT ![c] =
                     IF up
                     THEN [pc |-> "running",
                           tasks |-> [s \in coins \cup
                                          (IF c > 1 THEN DOMAIN cycles[c - 1].tasks ELSE {})
                                      |-> Task("fetching", NoPoint)]]
                     ELSE [pc |-> "failed", tasks |-> <<>>]]
    /\ UNCHANGED <<proc, ui, call, coins, market_data, now, pending, res, nreq, pager>>

\* Variant: an error of runFetchCycle escapes and the timer calls it no more.
StartCycleUnlessFailed(c, up) ==
    /\ cycles[c].pc = "idle"
    /\ \A d \in 1..(c - 1) : cycles[d].pc \notin {"idle", "failed"}
    /\ cycles' = [cycles EXCEPT ![c] =
                     IF up
                     THEN [pc |-> "running",
                           tasks |-> [s \in coins |-> Task("fetching", NoPoint)]]
                     ELSE [pc |-> "failed", tasks |-> <<>>]]
    /\ UNCHANGED <<proc, ui, call, coins, market_data, now, pending, res, nreq, pager>>

\* The timer fires: runFetchCycle reads the symbol set and starts one task per symbol.
\* A failed read is caught by the outer catch and ends the cycle.  The timer starts
\* the runs in order, whether or not the earlier ones have returned.
StartCycle(c, up) ==
    /\ cycles[c].pc = "idle"
    /\ \A d \in 1..(c - 1) : cycles[d].pc # "idle"
    /\ cycles' = [cycles EXCEPT ![c] =
                     IF up
                     THEN [pc |-> "running",
                           tasks |-> [s \in coins |-> Task("fetching", NoPoint)]]
                     ELSE [pc |-> "failed", tasks |-> <<>>]]
    /\ UNCHANGED <<proc, ui, call, coins, market_data, now, pending, res, nreq, pager>>

\* Variant: a failed fetch rejects Promise.all and the outer catch ends the cycle.
TaskFetchAborting(c, s, o, v) ==
    /\ cycles[c].pc = "running"
    /\ s \in DOMAIN cycles[c].tasks
    /\ cycles[c].tasks[s].st = "fetching"
    /\ cycles' = IF fetchResolves(o)
                 THEN [cycles EXCEPT ![c].tasks[s] = Task("storing", fetchedPoint(now, v))]
                 ELSE [cycles EXCEPT ![c] = [pc |-> "failed", tasks |-> <<>>]]
    /\ UNCHANGED <<proc, ui, call, coins, market_data, now, pending, res, nreq, pager>>

\* A task's fetchBinanceData settles; a failure is caught inside the task.
TaskFetch(c, s, o, v) ==
    /\ cycles[c].pc = "running"
    /\ s \in DOMAIN cycles[c].tasks
    /\ cycles[c].tasks[s].st = "fetching"
    /\ cycles' = [cycles EXCEPT ![c].tasks[s] =
                     IF fetchResolves(o)
                     THEN Task("storing", fetchedPoint(now, v))
                     ELSE Task("failed", NoPoint)]
    /\ UNCHANGED <<proc, ui, call, coins, market_data, now, pending, res, nreq, pager>>

\* Variant: the task inserts the coin row, if missing, with the sample.
TaskStoreEnsuringCoin(c, s, up) ==
    /\ cycles[c].pc = "running"
    /\ s \in DOMAIN cycles[c].tasks
    /\ cycles[c].tasks[s].st = "storing"
    /\ coins' = IF up THEN coins \cup {s} ELSE coins
    /\ market_data' = storePoint(coins', market_data, s, cycles[c].tasks[s].point, up)
    /\ cycles' = [cycles EXCEPT ![c].tasks[s].st = IF up THEN "stored" ELSE "failed"]
    /\ UNCHANGED <<proc, ui, call, now, pending, res, nreq, pager>>

\* A task's storePoint settles; a failure is caught inside the task.
TaskStore(c, s, up) ==
    /\ cycles[c].pc = "running"
    /\ s \in DOMAIN cycles[c].tasks
    /\ cycles[c].tasks[s].st = "storing"
    /\ market_data' = storePoint(coins, market_data, s, cycles[c].tasks[s].point, up)
    /\ cycles' = [cycles EXCEPT ![c].tasks[s].st =
                     IF storePointOk(coins, s, up) THEN "stored" ELSE "failed"]
    /\ UNCHANGED <<proc, ui, call, coins, now, pending, res, nreq, pager>>

\* Variant: the prune does not await Promise.all.
CyclePruneEarly(c, up) ==
    /\ cycles[c].pc = "running"
    /\ LET cutoff == now - RETENTION_MS
       IN  /\ market_data' = IF up THEN DeleteOlderThan(market_data, cutoff) ELSE market_data
           /\ cycles' = [cycles EXCEPT ![c] = [pc |-> IF up THEN "done" ELSE "failed",
                                                tasks |-> <<>>]]
    /\ UNCHANGED <<proc, ui, call, coins, now, pending, res, nreq, pager>>

\* Variant: the prune runs only when some sample was stored by the cycle.
CyclePruneIfStored(c, up) ==
    /\ cycles[c].pc = "running"
    /\ \A s \in DOMAIN cycles[c].tasks : Settled(cycles[c].tasks[s])
    /\ \E s \in DOMAIN cycles[c].tasks : cycles[c].tasks[s].st = "stored"
    /\ LET cutoff == now - RETENTION_MS
       IN  /\ market_data' = IF up THEN DeleteOlderThan(market_data, cutoff) ELSE market_data
           /\ cycles' = [cycles EXCEPT ![c] = [pc |-> IF up THEN "done" ELSE "failed",
                                                tasks |-> <<>>]]
    /\ UNCHANGED <<proc, ui, call, coins, now, pending, res, nreq, pager>>

\* Variant: the cutoff is the present, nothing is retained.
CyclePruneToNow(c, up) ==
    /\ cycles[c].pc = "running"
    /\ \A s \in DOMAIN cycles[c].tasks : Settled(cycles[c].tasks[s])
    /\ market_data' = IF up THEN DeleteOlderThan(market_data, now) ELSE market_data
    /\ cycles' = [cycles EXCEPT ![c] = [pc |-> IF up THEN "done" ELSE "failed",
                                         tasks |-> <<>>]]
    /\ UNCHANGED <<proc, ui, call, coins, now, pending, res, nreq, pager>>

\* Promise.all has resolved: the cycle prunes rows older than RETENTION_MS and returns;
\* a failed DELETE is caught by the outer catch.  The run's locals end with it.
CyclePrune(c, up) ==
    /\ cycles[c].pc = "running"
    /\ \A s \in DOMAIN cycles[c].tasks : Settled(cycles[c].tasks[s])
    /\ LET cutoff == now - RETENTION_MS
       IN  /\ market_data' = IF up THEN DeleteOlderThan(market_data, cutoff) ELSE market_data
           /\ cycles' = [cycles EXCEPT ![c] = [pc |-> IF up THEN "done" ELSE "failed",
                                                tasks |-> <<>>]]
    /\ UNCHANGED <<proc, ui, call, coins, now, pending, res, nreq, pager>>

\* Time passes.
Tick ==
    /\ now - StartTime < MaxTicks
    /\ now' = now + 1
    /\ UNCHANGED <<proc, ui, call, coins, market_data, cycles, pending, res, nreq, pager>>

----------------------------------------------------------------------------
(* The inputs of the environment *)

\* Timestamps a client may post: one older than every cutoff, and the first capture time.
PostTimes == {1, StartTime}

\* Symbols of the samples clients post and fetch: the stored, upper-case form.
WriteSymbols == {toUpperCase(s) : s \in Symbols}

BodiesOf(symbols) ==
    {[symbol |-> s, point |-> MkPoint(t, v), has |-> BodyFields] :
        s \in symbols, t \in PostTimes, v \in Vals}
    \cup {[symbol |-> "A", point |-> MkPoint(1, V1), has |-> BodyFields \ {f}] :
        f \in BodyFields \ {"symbol"}}

StatusTriples == {<<p, o, f>> : p \in Statuses, o \in Statuses, f \in Statuses}

\* What the outside world does to one fetchBinanceData call: the three status codes,
\* or a request that is never answered, or a success body that is not JSON.
FetchOutcomes ==
    {[statuses |-> st, answered |-> TRUE, parsed |-> TRUE] : st \in StatusTriples}
    \cup {[statuses |-> <<200, 200, 200>>, answered |-> FALSE, parsed |-> TRUE],
          [statuses |-> <<200, 200, 200>>, answered |-> TRUE, parsed |-> FALSE]}

\* One outcome in which fetchBinanceData resolves and one in which it throws.
ResolveOrThrow ==
    {[statuses |-> <<200, 200, 200>>, answered |-> TRUE, parsed |-> TRUE],
     [statuses |-> <<200, 429, 200>>, answered |-> TRUE, parsed |-> TRUE]}

----------------------------------------------------------------------------
(* The server: registry and write routes, one fetch cycle and the clock *)

Registry ==
    \/ \E s \in Symbols \cup {NoSymbol}, up \in BOOLEAN : PostCoins(s, up)
    \/ \E s \in Symbols, up \in BOOLEAN : DeleteCoins(s, up)

Writes ==
    \/ \E b \in BodiesOf(WriteSymbols \cup {NoSymbol}), up \in BOOLEAN : PostMarketData(b, up)
    \/ \E s \in WriteSymbols \cup {NoSymbol}, o \in FetchOutcomes : PostFetch(s, o, V2)
    \/ \E p \in pending, up \in BOOLEAN : PostFetchStore(p, up)

Cycle ==
    \/ \E c \in DOMAIN cycles, up \in BOOLEAN : StartCycle(c, up)
    \/ \E c \in DOMAIN cycles, s \in Symbols, o \in FetchOutcomes : TaskFetch(c, s, o, V1)
    \/ \E c \in DOMAIN cycles, s \in Symbols, up \in BOOLEAN : TaskStore(c, s, up)
    \/ \E c \in DOMAIN cycles, up \in BOOLEAN : CyclePrune(c, up)

Next == Registry \/ Writes \/ Cycle \/ Tick

Spec == Init /\ [][Next]_vars

----------------------------------------------------------------------------
(* The upsert races: every caller of storePoint, for the one symbol A, with the runs *)
(* of runFetchCycle overlapping and all of it within one millisecond                 *)

InitUpsert ==
    /\ coins = {"A"}
    /\ market_data = EmptyTable
    /\ now = StartTime
    /\ cycles = [c \in 1..MaxOverlap |-> IdleCycle]
    /\ pending = {}
    /\ res = NoResponse
    /\ nreq = 0
    /\ pager = IdlePager
    /\ proc = "serving"
    /\ ui = IdleUi
    /\ call = NoCall

\* Samples of A posted with the capture time of the fetches, and one body without a price.
UpsertBodies ==
    {[symbol |-> "A", point |-> MkPoint(StartTime, v), has |-> BodyFields] : v \in Vals}
    \cup {[symbol |-> "A", point |-> MkPoint(StartTime, V1), has |-> BodyFields \ {"price"}]}

UpsertWrites ==
    \/ \E b \in UpsertBodies, up \in BOOLEAN : PostMarketData(b, up)
    \/ \E o \in ResolveOrThrow : PostFetch("A", o, V2)
    \/ \E p \in pending, up \in BOOLEAN : PostFetchStore(p, up)

UpsertCycles ==
    \/ \E c \in DOMAIN cycles, up \in BOOLEAN : StartCycle(c, up)
    \/ \E c \in DOMAIN cycles, o \in ResolveOrThrow, v \in Vals : TaskFetch(c, "A", o, v)
    \/ \E c \in DOMAIN cycles, up \in BOOLEAN : TaskStore(c, "A", up)
    \/ \E c \in DOMAIN cycles, up \in BOOLEAN : CyclePrune(c, up)

NextUpsert == UpsertWrites \/ UpsertCycles

SpecUpsert == InitUpsert /\ [][NextUpsert]_vars

----------------------------------------------------------------------------
(* The fetch cycles alone, over the symbols A and B, with symbols removed meanwhile *)

CycleRuns ==
    \/ \E c \in DOMAIN cycles, up \in BOOLEAN : StartCycle(c, up)
    \/ \E c \in DOMAIN cycles, s \in coins \cup {"A", "B"}, o \in ResolveOrThrow :
          TaskFetch(c, s, o, V1)
    \/ \E c \in DOMAIN cycles, s \in coins \cup {"A", "B"}, up \in BOOLEAN : TaskStore(c, s, up)
    \/ \E c \in DOMAIN cycles, up \in BOOLEAN : CyclePrune(c, up)

CycleRegistry ==
    \E s \in {"A", "B"} : DeleteCoins(s, TRUE)

NextCycle == CycleRuns \/ CycleRegistry \/ Tick

SpecCycle == Init /\ [][NextCycle]_vars


----------------------------------------------------------------------------
(* The query service: GET requests against a store that does not change *)

\* GET /api/market-data; a client that goes on paging starts from this response.
GetMarketData(req, up) ==
    /\ res' = getMarketData(market_data, req, up)
    /\ pager' = IF res'.status = 200
                THEN [active |-> TRUE, first |-> req, got |-> res'.body, pages |-> 1]
                ELSE IdlePager
    /\ UNCHANGED <<proc, ui, call, coins, market_data, now, cycles, pending, nreq>>

\* The client repeats the request with the earliest returned timestamp as the cursor
\* and puts the older page in front of what it has.
NextPage(up) ==
    /\ pager.active
    /\ pager.pages < MaxPages
    /\ res.route = "GET /api/market-data" /\ res.status = 200
    /\ Len(res.body) > 0
    /\ res' = getMarketData(market_data,
                            [res.req EXCEPT !.before = IntParam(res.body[1].timestamp)], up)
    /\ pager' = IF res'.status = 200
                THEN [pager EXCEPT !.got = res'.body \o @, !.pages = @ + 1]
                ELSE IdlePager
    /\ UNCHANGED <<proc, ui, call, coins, market_data, now, cycles, pending, nreq>>

\* dbService.getMarketDataRange: GET /api/market-data/range?symbol=&start=&end=
\* There is no handler for this path: Express answers 404 and never touches the store.
GetMarketDataRange(symbol, start, end) ==
    /\ res' = Response(RangeRoute, [symbol |-> symbol, start |-> start, end |-> end],
                       routeStatus(RangeRoute), <<>>, FALSE)
    /\ pager' = IdlePager
    /\ UNCHANGED <<proc, ui, call, coins, market_data, now, cycles, pending, nreq>>

\* The rows drawn for a store: A's carry V1 at odd timestamps and V2 at even ones,
\* the rows of the other symbols the other way round.
RowAtTime(symbol, t) ==
    toRow(symbol, MkPoint(t, IF (t % 2 = 1) <=> (symbol = "A") THEN V1 ELSE V2))

\* The rows with the timestamps T out of 1..n, in index order.
RowsAt(symbol, T, n) ==
    SelectSeq([t \in 1..n |-> RowAtTime(symbol, t)], LAMBDA r : r.timestamp \in T)

SmallStores ==
    {[s \in Symbols |-> IF s = "A" THEN RowsAt("A", TA, MaxStored)
                        ELSE IF s = "B" THEN RowsAt("B", TB, MaxStored)
                        ELSE <<>>] :
        TA \in SUBSET (1..MaxStored), TB \in {{}, 1..MaxStored}}

\* A store with more rows for A than the cap.
BulkStore ==
    [s \in Symbols |-> IF s = "A" THEN RowsAt("A", 1..(MAX_LIMIT + 1), MAX_LIMIT + 1)
                       ELSE <<>>]

LimitParams ==
    {Absent, Text} \cup {IntParam(n) : n \in {-1, 0, 1, 2, MAX_LIMIT + 1}}

BeforeParams ==
    {Absent, Empty, Text} \cup {IntParam(t) : t \in (0..(MaxStored + 1)) \cup {MAX_LIMIT + 2}}

Requests ==
    {[symbol |-> s, limit |-> l, before |-> b] :
        s \in Symbols \cup {NoSymbol}, l \in LimitParams, b \in BeforeParams}

InitRead(stores) ==
    /\ coins = {"A", "B"}
    /\ market_data \in stores
    /\ now = StartTime
    /\ cycles = <<>>
    /\ pending = {}
    /\ res = NoResponse
    /\ nreq = 0
    /\ pager = IdlePager
    /\ proc = "serving"
    /\ ui = IdleUi
    /\ call = NoCall

NextQuery ==
    \/ \E req \in Requests : GetMarketData(req, TRUE)
    \/ NextPage(TRUE)
    \/ \E s \in WriteSymbols, start \in 0..1, end \in 1..MaxStored :
          GetMarketDataRange(s, start, end)

InitQuery == InitRead(SmallStores)
SpecQuery == InitQuery /\ [][NextQuery]_vars

InitClamp == InitRead({BulkStore})
SpecClamp == InitClamp /\ [][NextQuery]_vars

----------------------------------------------------------------------------
(* The retention sweep: a database that holds old rows of A, the fetch cycles, and *)
(* a client that starts tracking B and posts old samples of it meanwhile           *)

\* Timestamps older than the first capture time; the first cutoff, StartTime minus
\* RETENTION_MS, is 2.
OldTimes == {1, 2, 3}

\* A store without rows, and one with rows of A at the old timestamps.
OldStores ==
    {[s \in Symbols |-> IF s = "A" THEN RowsAt("A", T, 3) ELSE <<>>] : T \in {{}, OldTimes}}

InitSweep ==
    /\ coins = {"A"}
    /\ market_data \in OldStores
    /\ now = StartTime
    /\ cycles = [c \in 1..MaxCycles |-> IdleCycle]
    /\ pending = {}
    /\ res = NoResponse
    /\ nreq = 0
    /\ pager = IdlePager
    /\ proc = "serving"
    /\ ui = IdleUi
    /\ call = NoCall

\* Old samples of B, as a client back-filling history posts them.
SweepBodies ==
    {[symbol |-> "B", point |-> MkPoint(t, V2), has |-> BodyFields] : t \in {1, 2}}

SweepClient ==
    \/ PostCoins("b", TRUE)
    \/ \E b \in SweepBodies : PostMarketData(b, TRUE)

NextSweep == CycleRuns \/ SweepClient \/ Tick

SpecSweep == InitSweep /\ [][NextSweep]_vars

----------------------------------------------------------------------------
(* The symbol-set snapshot: overlapping and successive fetch cycles, with B added to *)
(* the registry and symbols removed from it meanwhile                              *)

InitSnapshot ==
    /\ coins = {"A"}
    /\ market_data = EmptyTable
    /\ now = StartTime
    /\ cycles = [c \in 1..MaxOverlap |-> IdleCycle]
    /\ pending = {}
    /\ res = NoResponse
    /\ nreq = 0
    /\ pager = IdlePager
    /\ proc = "serving"
    /\ ui = IdleUi
    /\ call = NoCall

SnapshotRegistry ==
    \/ PostCoins("b", TRUE)
    \/ \E s \in {"A", "B"} : DeleteCoins(s, TRUE)

NextSnapshot == CycleRuns \/ SnapshotRegistry

SpecSnapshot == InitSnapshot /\ [][NextSnapshot]_vars

----------------------------------------------------------------------------
(* Fetch-now alone: every outcome of the three Binance requests *)

FetchNow ==
    \/ \E s \in {"A", "B", NoSymbol}, o \in FetchOutcomes, v \in Vals : PostFetch(s, o, v)
    \/ \E p \in pending, up \in BOOLEAN : PostFetchStore(p, up)

NextFetch == FetchNow \/ Tick

SpecFetch == Init /\ [][NextFetch]_vars

----------------------------------------------------------------------------
(* Repeated numbers: cycles at successive times that fetch the same values for A, *)
(* and a client that reads the latest ten samples of A                            *)

Latest10 == [symbol |-> "A", limit |-> IntParam(10), before |-> Absent]

NextDedup == CycleRuns \/ Tick \/ GetMarketData(Latest10, TRUE)

SpecDedup == InitUpsert /\ [][NextDedup]_vars

----------------------------------------------------------------------------
(* Untracking: coins are deleted while fetch cycles run and fetch-now requests *)
(* for A are on their way                                                      *)

IntegrityFetchNow ==
    \/ \E o \in ResolveOrThrow : PostFetch("A", o, V2)
    \/ \E p \in pending : PostFetchStore(p, TRUE)

NextIntegrity == CycleRuns \/ CycleRegistry \/ IntegrityFetchNow

SpecIntegrity == Init /\ [][NextIntegrity]_vars

----------------------------------------------------------------------------
(* The life of a row: a database that holds old rows of A, the fetch cycles with *)
(* their sweep, and clients that post, fetch now and read samples of A meanwhile *)

\* Samples of A with other numbers than the stored ones: under a key the database
\* holds at the start, and under the first capture time.
RewriteBodies ==
    {[symbol |-> "A", point |-> MkPoint(t, V2), has |-> BodyFields] : t \in {1, StartTime}}

RewriteClient ==
    \/ \E b \in RewriteBodies : PostMarketData(b, TRUE)
    \/ PostFetch("A", [statuses |-> <<200, 200, 200>>, answered |-> TRUE, parsed |-> TRUE], V2)
    \/ \E p \in pending : PostFetchStore(p, TRUE)
    \/ GetMarketData(Latest10, TRUE)

NextImmutable == CycleRuns \/ RewriteClient

SpecImmutable == InitSweep /\ [][NextImmutable]_vars

----------------------------------------------------------------------------
(* Startup: initSchema() is called and not awaited; the routes are registered, the *)
(* timer is armed and app.listen is called while its query is in flight            *)

\* The CREATE TABLE / CREATE INDEX query resolves.
InitSchemaResolves ==
    /\ proc = "starting"
    /\ proc' = "serving"
    /\ UNCHANGED <<coins, market_data, now, cycles, pending, res, nreq, pager, ui, call>>

\* The query rejects: the catch handler logs and calls process.exit(1).
InitSchemaRejects ==
    /\ proc = "starting"
    /\ proc' = "exited"
    /\ UNCHANGED <<coins, market_data, now, cycles, pending, res, nreq, pager, ui, call>>

\* The process has not exited: its handlers and timer callbacks run.
Alive == proc # "exited"

\* The process starts on the database of an earlier run, which tracks A.
InitStartup ==
    /\ coins = {"A"}
    /\ market_data = EmptyTable
    /\ now = StartTime
    /\ cycles = [c \in 1..MaxCycles |-> IdleCycle]
    /\ pending = {}
    /\ res = NoResponse
    /\ nreq = 0
    /\ pager = IdlePager
    /\ proc = "starting"
    /\ ui = IdleUi
    /\ call = NoCall

NextStartup ==
    \/ InitSchemaResolves
    \/ InitSchemaRejects
    \/ Alive /\ UpsertWrites
    \/ Alive /\ UpsertCycles

SpecStartup == InitStartup /\ [][NextStartup]_vars

----------------------------------------------------------------------------
(* Progress of the fetch cycles.  The timer fires, the database answers and the event *)
(* loop runs every continuation that is ready, so these steps are weakly fair.  The   *)
(* answer of the external source is awaited without a timer racing it: TaskFetch, the *)
(* step in which the three requests settle, has no fairness condition.                *)

CycleFairness ==
    /\ WF_vars(\E c \in DOMAIN cycles : StartCycle(c, TRUE))
    /\ \A c \in 1..MaxCycles :
          /\ WF_vars(\E s \in Symbols : TaskStore(c, s, TRUE))
          /\ WF_vars(CyclePrune(c, TRUE))

SpecProgress == SpecCycle /\ CycleFairness

----------------------------------------------------------------------------
(* fetchBinanceData request by request, as POST /api/market-data/fetch calls it: *)
(* the three requests are issued together and settle one at a time               *)

\* Variant: the capture time is read when the requests are issued.
captureTimeAtCall(f, t) == f.calledAt

\* timestamp: Date.now() in the object fetchBinanceData returns, evaluated at time t.
captureTime(f, t) == t

\* The handler calls fetchBinanceData(symbol): the three fetch() calls are made.
\* v are the numbers the source reports.
CallFetch(symbol, v) ==
    /\ nreq < MaxRequests
    /\ call.pc = "idle"
    /\ nreq' = nreq + 1
    /\ call' = [NoCall EXCEPT !.pc = "requests", !.symbol = symbol, !.v = v, !.calledAt = now]
    /\ UNCHANGED <<coins, market_data, now, cycles, pending, res, pager, proc, ui>>

\* The response of request i (1 price, 2 open interest, 3 funding rate) arrives.
ResponseArrives(i, status) ==
    /\ call.pc = "requests"
    /\ call.resAt[i] = 0
    /\ call' = [call EXCEPT !.statuses[i] = status, !.resAt[i] = now]
    /\ UNCHANGED <<coins, market_data, now, cycles, pending, res, nreq, pager, proc, ui>>

\* Request i rejects: Promise.all rejects and the handler answers 500.
RequestFails(i) ==
    /\ call.pc = "requests"
    /\ call.resAt[i] = 0
    /\ call' = NoCall
    /\ res' = Response("POST /api/market-data/fetch", <<>>, 500,
                       [message |-> "fetch failed", statuses |-> <<>>], FALSE)
    /\ UNCHANGED <<coins, market_data, now, cycles, pending, nreq, pager, proc, ui>>

\* The first Promise.all has resolved: the statuses are checked, then the bodies read.
ResponsesChecked ==
    /\ call.pc = "requests"
    /\ \A i \in 1..3 : call.resAt[i] # 0
    /\ IF \A i \in 1..3 : ok(call.statuses[i])
       THEN /\ call' = [call EXCEPT !.pc = "bodies"]
            /\ res' = res
       ELSE /\ call' = NoCall
            /\ res' = Response("POST /api/market-data/fetch", <<>>, 500,
                               [message |-> "Binance request failed",
                                statuses |-> call.statuses], FALSE)
    /\ UNCHANGED <<coins, market_data, now, cycles, pending, nreq, pager, proc, ui>>

\* The body of response i is read and parsed.
BodyArrives(i) ==
    /\ call.pc = "bodies"
    /\ call.bodyAt[i] = 0
    /\ call' = [call EXCEPT !.bodyAt[i] = now]
    /\ UNCHANGED <<coins, market_data, now, cycles, pending, res, nreq, pager, proc, ui>>

\* The body of response i is not JSON: the second Promise.all rejects.
BodyFails(i) ==
    /\ call.pc = "bodies"
    /\ call.bodyAt[i] = 0
    /\ call' = NoCall
    /\ res' = Response("POST /api/market-data/fetch", <<>>, 500,
                       [message |-> "Unexpected token", statuses |-> <<>>], FALSE)
    /\ UNCHANGED <<coins, market_data, now, cycles, pending, nreq, pager, proc, ui>>

\* The second Promise.all has resolved: the point is built and returned to the handler,
\* which goes on to storePoint.  The arrival times of the call stay on record.
CallReturns ==
    /\ call.pc = "bodies"
    /\ \A i \in 1..3 : call.bodyAt[i] # 0
    /\ pending' = pending \cup
           {[symbol |-> call.symbol, point |-> fetchedPoint(captureTime(call, now), call.v)]}
    /\ call' = [call EXCEPT !.pc = "idle"]
    /\ UNCHANGED <<coins, market_data, now, cycles, res, nreq, pager, proc, ui>>

NextCapture ==
    \/ \E v \in Vals : CallFetch("A", v)
    \/ \E i \in 1..3, status \in Statuses : ResponseArrives(i, status)
    \/ \E i \in 1..3 : RequestFails(i)
    \/ ResponsesChecked
    \/ \E i \in 1..3 : BodyArrives(i)
    \/ \E i \in 1..3 : BodyFails(i)
    \/ CallReturns
    \/ \E p \in pending : PostFetchStore(p, TRUE)
    \/ Tick

SpecCapture == Init /\ [][NextCapture]_vars

----------------------------------------------------------------------------
(* CoinDetail: the history the client merges from its data prop, the pages of *)
(* loadMore and the range read of generateSnapshots                           *)

HISTORICAL_FETCH_LIMIT == 180
MAX_POINTS_IN_MEMORY == 120
SelectedPeriod == 3600000

\* The elements of s at the indices I, in the order of s.
SubSeqAt(s, I) ==
    LET F[k \in 0..Len(s)] ==
            IF k = 0 THEN <<>> ELSE IF k \in I THEN Append(F[k - 1], s[k]) ELSE F[k - 1]
    IN  F[Len(s)]

\* Variant: no point is filtered out.
KeepAll(s) == s

\* filter(d => { if (seen.has(d.timestamp)) return false; seen.add(d.timestamp);
\* return true; }): the first point of every timestamp.
Dedupe(s) ==
    SubSeqAt(s, {i \in 1..Len(s) : \A j \in 1..(i - 1) : s[j].timestamp # s[i].timestamp})

\* sort((a, b) => a.timestamp - b.timestamp): stable, ascending.
SortByTimestamp(s) ==
    LET Before(j, i) ==
            s[j].timestamp < s[i].timestamp \/ (s[j].timestamp = s[i].timestamp /\ j < i)
        place == [i \in 1..Len(s) |-> Cardinality({j \in 1..Len(s) : Before(j, i)}) + 1]
    IN  [p \in 1..Len(s) |-> s[CHOOSE i \in 1..Len(s) : place[i] = p]]

\* The updater of setHistoricalData: the new points in front of the previous ones.
mergeHistory(more, prev) == SortByTimestamp(Dedupe(more \o prev))

\* allData = useMemo(...)
allData(u) == SortByTimestamp(Dedupe(u.historicalData \o u.data))

\* App renders CoinDetail with a new data prop: the latest k samples it holds of the
\* symbol shown.
LiveData(k) ==
    /\ ui' = [ui EXCEPT !.data = MapToPoint(Reverse(SelectLatest(market_data, ui.symbol, k)))]
    /\ UNCHANGED <<coins, market_data, now, cycles, pending, res, nreq, pager, proc, call>>

\* The user selects another coin that has samples: App renders the same CoinDetail with
\* the new symbol and its latest k samples, and the effect on [symbol] resets the
\* history, the cursor and the flags.  A request of loadMore in flight is not told.
SelectSymbol(symbol, k) ==
    /\ symbol # ui.symbol
    /\ SelectLatest(market_data, symbol, k) # <<>>
    /\ ui' = [ui EXCEPT !.symbol = symbol,
                        !.data = MapToPoint(Reverse(SelectLatest(market_data, symbol, k))),
                        !.historicalData = <<>>, !.isLoadingMore = FALSE,
                        !.hasMore = TRUE, !.earliestFetched = Null]
    /\ UNCHANGED <<coins, market_data, now, cycles, pending, res, nreq, pager, proc, call>>

\* loadMore up to its request: the cursor is computed and the request sent for the
\* symbol shown.
LoadMoreCall ==
    /\ ~ui.isLoadingMore /\ ui.hasMore
    /\ ui' = [ui EXCEPT !.isLoadingMore = TRUE,
                        !.loads = @ \cup
                            {[symbol |-> ui.symbol,
                              before |-> IF ui.earliestFetched # Null THEN ui.earliestFetched
                                         ELSE IF allData(ui) # <<>> THEN allData(ui)[1].timestamp
                                         ELSE now]}]
    /\ UNCHANGED <<coins, market_data, now, cycles, pending, res, nreq, pager, proc, call>>

\* Variant: an empty page leaves hasMore as it is.
LoadMoreArrivesKeepingHasMore(up) ==
    \E l \in ui.loads :
        /\ res' = getMarketData(market_data,
                                [symbol |-> l.symbol, limit |-> IntParam(HISTORICAL_FETCH_LIMIT),
                                 before |-> IntParam(l.before)], up)
        /\ ui' = IF res'.status # 200 \/ res'.body = <<>>
                 THEN [ui EXCEPT !.isLoadingMore = FALSE, !.loads = @ \ {l}]
                 ELSE [ui EXCEPT !.isLoadingMore = FALSE, !.loads = @ \ {l},
                                 !.historicalData = mergeHistory(SortByTimestamp(res'.body), @),
                                 !.earliestFetched = SortByTimestamp(res'.body)[1].timestamp]
        /\ UNCHANGED <<coins, market_data, now, cycles, pending, nreq, pager, proc, call>>

\* A request of loadMore is answered and loadMore runs to its end on the state
\* CoinDetail has by then.
LoadMoreArrives(up) ==
    \E l \in ui.loads :
        /\ res' = getMarketData(market_data,
                                [symbol |-> l.symbol, limit |-> IntParam(HISTORICAL_FETCH_LIMIT),
                                 before |-> IntParam(l.before)], up)
        /\ ui' = IF res'.status # 200
                 THEN [ui EXCEPT !.isLoadingMore = FALSE, !.loads = @ \ {l}]
                 ELSE IF res'.body = <<>>
                 THEN [ui EXCEPT !.isLoadingMore = FALSE, !.loads = @ \ {l}, !.hasMore = FALSE]
                 ELSE [ui EXCEPT !.isLoadingMore = FALSE, !.loads = @ \ {l},
                                 !.historicalData = mergeHistory(SortByTimestamp(res'.body), @),
                                 !.earliestFetched = SortByTimestamp(res'.body)[1].timestamp]
        /\ UNCHANGED <<coins, market_data, now, cycles, pending, nreq, pager, proc, call>>

\* generateSnapshots up to setHistoricalData: the range read when the history does not
\* reach back to the start of the period.
GenerateSnapshots ==
    /\ (IF allData(ui) # <<>> THEN allData(ui)[1].timestamp ELSE now) > now - SelectedPeriod
    /\ res' = Response(RangeRoute,
                       [symbol |-> ui.symbol, start |-> now - SelectedPeriod, end |-> now],
                       routeStatus(RangeRoute), <<>>, FALSE)
    /\ ui' = IF res'.status = 200
             THEN [ui EXCEPT !.historicalData = mergeHistory(res'.body, @)]
             ELSE ui
    /\ UNCHANGED <<coins, market_data, now, cycles, pending, nreq, pager, proc, call>>

\* Stores with rows of A at some of the old timestamps.
HistoryStores ==
    {[s \in Symbols |-> IF s = "A" THEN RowsAt("A", T, 3) ELSE <<>>] : T \in SUBSET OldTimes}

\* Samples of A a client back-fills at the old timestamps and posts at the present.
HistoryBodies ==
    {[symbol |-> "A", point |-> MkPoint(t, V2), has |-> BodyFields] : t \in {2, StartTime}}

InitHistory == InitRead(HistoryStores)

NextHistory ==
    \/ \E k \in {0, 1, MAX_POINTS_IN_MEMORY} : LiveData(k)
    \/ LoadMoreCall
    \/ \E up \in BOOLEAN : LoadMoreArrives(up)
    \/ GenerateSnapshots
    \/ \E b \in HistoryBodies : PostMarketData(b, TRUE)

SpecHistory == InitHistory /\ [][NextHistory]_vars

----------------------------------------------------------------------------
(* The earlier server (src/unnamed/part_000): its runFetchCycle takes the symbols *)
(* one after the other and inserts the coin row before the sample; no sweep       *)

\* No task of the cycle other than that of s is between its fetch and its settling.
InTurn(c, s) ==
    \A t \in DOMAIN cycles[c].tasks \ {s} :
        cycles[c].tasks[t].st \in {"fetching", "stored", "failed"}

\* await fetchBinanceData(row.symbol) settles; a failure is caught in the loop body.
EarlierTaskFetch(c, s, o, v) ==
    /\ cycles[c].pc = "running"
    /\ s \in DOMAIN cycles[c].tasks
    /\ cycles[c].tasks[s].st = "fetching"
    /\ InTurn(c, s)
    /\ cycles' = [cycles EXCEPT ![c].tasks[s] =
                     IF fetchResolves(o)
                     THEN Task("ensuring", fetchedPoint(now, v))
                     ELSE Task("failed", NoPoint)]
    /\ UNCHANGED <<proc, ui, call, coins, market_data, now, pending, res, nreq, pager>>

\* INSERT INTO coins(symbol) VALUES($1) ON CONFLICT DO NOTHING settles.
EarlierEnsureCoin(c, s, up) ==
    /\ cycles[c].pc = "running"
    /\ s \in DOMAIN cycles[c].tasks
    /\ cycles[c].tasks[s].st = "ensuring"
    /\ coins' = IF up THEN coins \cup {s} ELSE coins
    /\ cycles' = [cycles EXCEPT ![c].tasks[s].st = IF up THEN "storing" ELSE "failed"]
    /\ UNCHANGED <<proc, ui, call, market_data, now, pending, res, nreq, pager>>

\* INSERT INTO market_data ... ON CONFLICT (symbol, timestamp) DO NOTHING settles.
EarlierTaskStore(c, s, up) ==
    /\ cycles[c].pc = "running"
    /\ s \in DOMAIN cycles[c].tasks
    /\ cycles[c].tasks[s].st = "storing"
    /\ market_data' = storePoint(coins, market_data, s, cycles[c].tasks[s].point, up)
    /\ cycles' = [cycles EXCEPT ![c].tasks[s].st =
                     IF storePointOk(coins, s, up) THEN "stored" ELSE "failed"]
    /\ UNCHANGED <<proc, ui, call, coins, now, pending, res, nreq, pager>>

\* The loop is over: the cycle returns.
EarlierCycleEnd(c) ==
    /\ cycles[c].pc = "running"
    /\ \A s \in DOMAIN cycles[c].tasks : Settled(cycles[c].tasks[s])
    /\ cycles' = [cycles EXCEPT ![c] = [pc |-> "done", tasks |-> <<>>]]
    /\ UNCHANGED <<proc, ui, call, coins, market_data, now, pending, res, nreq, pager>>

NextDefensive ==
    \/ \E c \in DOMAIN cycles, up \in BOOLEAN : StartCycle(c, up)
    \/ \E c \in DOMAIN cycles, s \in {"A", "B"}, o \in ResolveOrThrow :
          EarlierTaskFetch(c, s, o, V1)
    \/ \E c \in DOMAIN cycles, s \in {"A", "B"}, up \in BOOLEAN : EarlierEnsureCoin(c, s, up)
    \/ \E c \in DOMAIN cycles, s \in {"A", "B"}, up \in BOOLEAN : EarlierTaskStore(c, s, up)
    \/ \E c \in DOMAIN cycles : EarlierCycleEnd(c)
    \/ CycleRegistry
    \/ Tick

SpecDefensive == Init /\ [][NextDefensive]_vars

----------------------------------------------------------------------------
(* App: the init effect and the polling loop of the client, against this server *)

\* dbService.healthCheck asks for this route.
HealthRoute == "GET /api/health"

BACKOFF_STEPS_MS == <<5000, 15000, 30000, 60000>>

\* slice(-MAX_POINTS_IN_MEMORY)
LastPoints(s) ==
    IF Len(s) <= MAX_POINTS_IN_MEMORY THEN s
    ELSE SubSeq(s, Len(s) - MAX_POINTS_IN_MEMORY + 1, Len(s))

DEFAULT_GROUP_ID == "__default__"

\* The members of a set of symbols as a list.
SeqOf(S) == SelectSeq(<<"A", "B", "b">>, LAMBDA s : s \in S)

\* The symbols a list holds.
Members(q) == {q[i] : i \in 1..Len(q)}

\* The coins some group lists.
Grouped(gs) == UNION {Members(gs[i].coinSymbols) : i \in 1..Len(gs)}

HasDefaultGroup(gs) == \E i \in 1..Len(gs) : gs[i].id = DEFAULT_GROUP_ID

\* The effect on [trackedCoins, groups.length]: without any group the default group is
\* made of the tracked coins.
DefaultGroupEffect(tc, gs) ==
    IF tc # {} /\ gs = <<>>
    THEN <<[id |-> DEFAULT_GROUP_ID, coinSymbols |-> SeqOf(tc)]>>
    ELSE gs

\* The effect on [trackedCoins, groups]: the tracked coins no group lists are appended
\* to the default group, if there is one.
UngroupedEffect(tc, gs) ==
    IF tc = {} \/ gs = <<>> \/ tc \subseteq Grouped(gs) \/ ~HasDefaultGroup(gs)
    THEN gs
    ELSE [i \in 1..Len(gs) |->
            IF gs[i].id = DEFAULT_GROUP_ID
            THEN [gs[i] EXCEPT !.coinSymbols = @ \o SeqOf(tc \ Grouped(gs))]
            ELSE gs[i]]

\* The client after the two grouping effects have run on its new state.
GroupEffects(u) ==
    [u EXCEPT !.groups = UngroupedEffect(u.trackedCoins, DefaultGroupEffect(u.trackedCoins, @))]

\* The init effect: the tracked coins and the latest samples of each are loaded.
\* up tells whether the backend is reachable.
AppInit(up) ==
    /\ ~ui.initialised
    /\ res' = IF up /\ "A" \in coins
              THEN getMarketData(market_data,
                                 [symbol |-> "A", limit |-> IntParam(MAX_POINTS_IN_MEMORY),
                                  before |-> Absent], TRUE)
              ELSE res
    /\ ui' = IF up
             THEN GroupEffects([ui EXCEPT !.initialised = TRUE, !.isConnected = TRUE,
                                          !.trackedCoins = coins,
                                          !.marketData = IF "A" \in coins THEN res'.body
                                                         ELSE <<>>,
                                          !.hasEntry = "A" \in coins])
             ELSE [ui EXCEPT !.initialised = TRUE, !.isConnected = FALSE]
    /\ UNCHANGED <<coins, market_data, now, cycles, pending, nreq, pager, proc, call>>

\* The catch branch of poll: the next delay is taken, the backoff index advanced and
\* the next run scheduled.
PollFailed(u) ==
    [u EXCEPT !.isConnected = FALSE,
              !.delay = BACKOFF_STEPS_MS[Min(u.backoffIndex, Len(BACKOFF_STEPS_MS) - 1) + 1],
              !.backoffIndex = Min(u.backoffIndex + 1, Len(BACKOFF_STEPS_MS) - 1),
              !.timer = TRUE,
              !.failed = Min(u.failed + 1, MaxFailed)]

\* The return of poll when no coin is tracked: the next run is scheduled, nothing else.
PollNoCoins(u) ==
    [u EXCEPT !.timer = TRUE, !.delay = REFRESH_INTERVAL_MS]

\* The updater without the cut to the last MAX_POINTS_IN_MEMORY points.
PollMergedUncut(existing, body) ==
    IF body = <<>> \/ \E i \in 1..Len(existing) : existing[i].timestamp = body[1].timestamp
    THEN existing
    ELSE SortByTimestamp(Append(existing, body[1]))

\* The updater of setMarketData for the latest point of A.
PollMerged(existing, body) ==
    IF body = <<>> \/ \E i \in 1..Len(existing) : existing[i].timestamp = body[1].timestamp
    THEN existing
    ELSE LastPoints(SortByTimestamp(Append(existing, body[1])))

\* The end of the try block with the backoff index left as it is.
PollAppliedKeepingBackoff(u, body) ==
    [u EXCEPT !.marketData = PollMerged(@, body),
              !.hasEntry = @ \/ PollMerged(u.marketData, body) # u.marketData,
              !.isConnected = TRUE,
              !.timer = TRUE, !.delay = REFRESH_INTERVAL_MS,
              !.failed = 0]

\* The end of the try block of poll: the updates are merged, the backoff is reset and
\* the next run scheduled.  An update with a point writes the key of its coin.
PollApplied(u, body) ==
    [u EXCEPT !.marketData = PollMerged(@, body),
              !.hasEntry = @ \/ PollMerged(u.marketData, body) # u.marketData,
              !.isConnected = TRUE, !.backoffIndex = 0,
              !.timer = TRUE, !.delay = REFRESH_INTERVAL_MS,
              !.failed = 0]

\* The request of poll for the latest sample of a coin out of cs: of A if it is one.
LatestOf(cs) ==
    [symbol |-> IF "A" \in cs \/ cs = {} THEN "A" ELSE CHOOSE s \in cs : TRUE,
     limit |-> IntParam(1), before |-> Absent]

\* The update a poll for the coins cs holds for A, body being the answer for LatestOf(cs).
UpdateOfA(cs, body) == IF "A" \in cs THEN body ELSE <<>>

\* One run of poll with no other handler in between: the health check, then the
\* latest sample of every tracked coin.
Poll(up) ==
    /\ ui.initialised
    /\ LET health == IF up THEN routeStatus(HealthRoute) ELSE 0
           latest == getMarketData(market_data, LatestOf(ui.trackedCoins), TRUE)
       IN  IF health # 200
           THEN /\ res' = Response(HealthRoute, <<>>, health, <<>>, FALSE)
                /\ ui' = PollFailed(ui)
           ELSE IF ui.trackedCoins = {}
           THEN /\ res' = Response(HealthRoute, <<>>, health, <<>>, FALSE)
                /\ ui' = PollNoCoins(ui)
           ELSE /\ res' = latest
                /\ ui' = PollApplied(ui, UpdateOfA(ui.trackedCoins, latest.body))
    /\ UNCHANGED <<coins, market_data, now, cycles, pending, nreq, pager, proc, call>>

NextPoll ==
    \/ CycleRuns
    \/ Tick
    \/ \E up \in BOOLEAN : AppInit(up)
    \/ \E up \in BOOLEAN : Poll(up)

SpecPoll == InitSweep /\ [][NextPoll]_vars

----------------------------------------------------------------------------
(* The polling loop of App, one step per await: the handlers of the client run *)
(* between the steps of a poll that is in flight                               *)

\* The ways a health check ends at the client: answered, not found, no answer.
HealthOutcomes == {200, 404, 0}

\* The timeout fires: poll reads trackedCoinsRef and sends the health check.
PollFires ==
    /\ ui.initialised
    /\ ui.timer
    /\ ui' = [ui EXCEPT !.timer = FALSE,
                        !.poll = [pc |-> "health", coins |-> ui.trackedCoins, body |-> <<>>]]
    /\ UNCHANGED <<coins, market_data, now, cycles, pending, res, nreq, pager, proc, call>>

\* The health check ends with health and, if it was answered and coins are tracked, the
\* latest sample of each is requested and answered; up tells whether the backend's
\* database is reachable.  A failure of either takes the catch branch.
PollFetches(health, up) ==
    /\ ui.poll.pc = "health"
    /\ LET latest == getMarketData(market_data, LatestOf(ui.poll.coins), up)
           done == [ui EXCEPT !.poll = NoPoll]
       IN  IF health # 200
           THEN /\ res' = Response(HealthRoute, <<>>, health, <<>>, FALSE)
                /\ ui' = PollFailed(done)
           ELSE IF ui.poll.coins = {}
           THEN /\ res' = Response(HealthRoute, <<>>, health, <<>>, FALSE)
                /\ ui' = PollNoCoins(done)
           ELSE /\ res' = latest
                /\ ui' = IF latest.status # 200
                         THEN PollFailed(done)
                         ELSE [ui EXCEPT !.poll = [@ EXCEPT !.pc = "fetched",
                                                            !.body = UpdateOfA(ui.poll.coins,
                                                                               latest.body)]]
    /\ UNCHANGED <<coins, market_data, now, cycles, pending, nreq, pager, proc, call>>

\* The continuation of poll after its requests: setMarketData and the next timeout.
PollApplies ==
    /\ ui.poll.pc = "fetched"
    /\ ui' = PollApplied([ui EXCEPT !.poll = NoPoll], ui.poll.body)
    /\ UNCHANGED <<coins, market_data, now, cycles, pending, res, nreq, pager, proc, call>>

PollSteps ==
    \/ PollFires
    \/ \E health \in HealthOutcomes, up \in BOOLEAN : PollFetches(health, up)
    \/ PollApplies

\* The backend a client starts against: A registered or not, with some old samples.
InitClient ==
    /\ coins \in {{}, {"A"}}
    /\ market_data \in {st \in HistoryStores : st["A"] = <<>> \/ "A" \in coins}
    /\ now = StartTime
    /\ cycles = <<>>
    /\ pending = {}
    /\ res = NoResponse
    /\ nreq = 0
    /\ pager = IdlePager
    /\ proc = "serving"
    /\ ui = IdleUi
    /\ call = NoCall

\* addCoin up to its load: the coin is registered at the backend, tracked and appended
\* to the default group.  up tells whether the backend is reachable; if it is not,
\* addCoin throws at its first request.
AddCoinCall(symbol, up) ==
    /\ ui.initialised
    /\ symbol \notin ui.trackedCoins
    /\ ui.adding = NoSymbol
    /\ res' = IF up THEN Response("POST /api/coins", <<>>, 201, [symbol |-> symbol], TRUE)
              ELSE Response("POST /api/coins", <<>>, 0, <<>>, FALSE)
    /\ coins' = IF up THEN coins \cup {toUpperCase(symbol)} ELSE coins
    /\ ui' = IF up
             THEN GroupEffects(
                      [ui EXCEPT !.trackedCoins = @ \cup {symbol},
                                 !.adding = symbol,
                                 !.groups = [i \in 1..Len(@) |->
                                                IF @[i].id = DEFAULT_GROUP_ID
                                                THEN [@[i] EXCEPT !.coinSymbols = Append(@, symbol)]
                                                ELSE @[i]]])
             ELSE ui
    /\ UNCHANGED <<market_data, now, cycles, pending, nreq, pager, proc, call>>

\* The load of addCoin is answered: the history of the coin becomes its series, the empty
\* series if the request failed.
AddCoinLoads(up) ==
    /\ ui.adding # NoSymbol
    /\ res' = getMarketData(market_data,
                            [symbol |-> ui.adding, limit |-> IntParam(MAX_POINTS_IN_MEMORY),
                             before |-> Absent], up)
    /\ ui' = IF ui.adding = "A"
             THEN [ui EXCEPT !.adding = NoSymbol, !.hasEntry = TRUE,
                             !.marketData = IF res'.status = 200 THEN res'.body ELSE <<>>]
             ELSE [ui EXCEPT !.adding = NoSymbol]
    /\ UNCHANGED <<coins, market_data, now, cycles, pending, nreq, pager, proc, call>>

\* removeCoin: the coin is deleted at the backend, then dropped from the tracked coins,
\* from marketData and from every group.  up tells whether the backend is reachable; if
\* it is not, removeCoin throws at its request.  The selected coin is not part of
\* the model.
RemoveCoin(symbol, up) ==
    /\ symbol \in ui.trackedCoins
    /\ res' = IF up
              THEN Response("DELETE /api/coins/:symbol", <<>>, 200, [symbol |-> symbol], TRUE)
              ELSE Response("DELETE /api/coins/:symbol", <<>>, 0, <<>>, FALSE)
    /\ coins' = IF up THEN coins \ {symbol} ELSE coins
    /\ market_data' = IF up /\ symbol \in coins THEN DeleteCascade(market_data, symbol)
                      ELSE market_data
    /\ ui' = IF up
             THEN GroupEffects(
                      [ui EXCEPT !.trackedCoins = @ \ {symbol},
                                 !.marketData = IF symbol = "A" THEN <<>> ELSE @,
                                 !.hasEntry = IF symbol = "A" THEN FALSE ELSE @,
                                 !.groups = [i \in 1..Len(@) |->
                                                [@[i] EXCEPT !.coinSymbols =
                                                    SelectSeq(@, LAMBDA c : c # symbol)]]])
             ELSE ui
    /\ UNCHANGED <<now, cycles, pending, nreq, pager, proc, call>>

NextRemove ==
    \/ \E up \in BOOLEAN : AppInit(up)
    \/ PollSteps
    \/ \E up \in BOOLEAN : RemoveCoin("A", up)
    \/ \E b \in HistoryBodies : PostMarketData(b, TRUE)

SpecRemove == InitClient /\ [][NextRemove]_vars

\* A backend with as many samples of A as the client keeps, and one with a few.
SeriesStores ==
    {[s \in Symbols |-> IF s = "A" THEN RowsAt("A", 1..n, n) ELSE <<>>] :
        n \in {2, MAX_POINTS_IN_MEMORY}}

\* The samples of A that are stored while the client runs.
SeriesBodies ==
    {[symbol |-> "A", point |-> MkPoint(t, V2), has |-> BodyFields] :
        t \in {StartTime, StartTime + 1}}

InitSeries ==
    /\ coins = {"A"}
    /\ market_data \in SeriesStores
    /\ now = StartTime
    /\ cycles = <<>>
    /\ pending = {}
    /\ res = NoResponse
    /\ nreq = 0
    /\ pager = IdlePager
    /\ proc = "serving"
    /\ ui = IdleUi
    /\ call = NoCall

\* The polls are those the backend answers.
NextSeries ==
    \/ \E up \in BOOLEAN : AppInit(up)
    \/ PollFires
    \/ PollFetches(200, TRUE)
    \/ PollApplies
    \/ \E up \in BOOLEAN : AddCoinCall("A", up)
    \/ \E up \in BOOLEAN : AddCoinLoads(up)
    \/ \E b \in SeriesBodies : PostMarketData(b, TRUE)

SpecSeries == InitSeries /\ [][NextSeries]_vars

NextBackoff ==
    \/ \E up \in BOOLEAN : AppInit(up)
    \/ PollSteps
    \/ \E b \in HistoryBodies : PostMarketData(b, TRUE)

SpecBackoff == InitClient /\ [][NextBackoff]_vars

\* App is unmounted: the cleanup of the polling effect clears the timeout intervalRef
\* holds; a poll in flight is not told.
Unmount ==
    /\ ui.mounted
    /\ ui' = [ui EXCEPT !.mounted = FALSE, !.timer = FALSE]
    /\ UNCHANGED <<coins, market_data, now, cycles, pending, res, nreq, pager, proc, call>>

NextLoop ==
    \/ \E up \in BOOLEAN : AppInit(up)
    \/ PollSteps
    \/ Unmount
    \/ \E b \in HistoryBodies : PostMarketData(b, TRUE)

SpecLoop == InitClient /\ [][NextLoop]_vars

----------------------------------------------------------------------------
(* CoinDetail while the user switches between two coins that have samples *)

SwitchStores == {st \in SmallStores : st["A"] # <<>> /\ st["B"] # <<>>}

InitSwitch == InitRead(SwitchStores)

NextSwitch ==
    \/ \E k \in {1, MAX_POINTS_IN_MEMORY} : LiveData(k)
    \/ \E s \in {"A", "B"} : SelectSymbol(s, 1)
    \/ LoadMoreCall
    \/ \E up \in BOOLEAN : LoadMoreArrives(up)
    \/ GenerateSnapshots

SpecSwitch == InitSwitch /\ [][NextSwitch]_vars

\* CoinDetail on one symbol whose history does not change.
NextLazy ==
    \/ \E k \in {0, 1, MAX_POINTS_IN_MEMORY} : LiveData(k)
    \/ LoadMoreCall
    \/ \E up \in BOOLEAN : LoadMoreArrives(up)

SpecLazy == InitHistory /\ [][NextLazy]_vars

----------------------------------------------------------------------------
(* The coin groups of App: the handlers of the group modal and of drag and drop, *)
(* each followed by the grouping effects its state change triggers               *)

\* The ids createGroup gives: group_ and the time of the creation.
CustomIds == {"group_" \o ToString(n) : n \in 1..MaxGroups}

GroupIds(gs) == {gs[i].id : i \in 1..Len(gs)}

\* The first position of c in q, counted from 1; 0 if q does not hold c.
IndexOf(q, c) ==
    IF c \in Members(q) THEN CHOOSE i \in 1..Len(q) : q[i] = c /\ \A j \in 1..(i - 1) : q[j] # c
    ELSE 0

\* groups.find(g => g.coinSymbols.includes(c)): the position of the first such group, 0
\* if there is none.
FindGroupWith(gs, c) ==
    IF c \in Grouped(gs)
    THEN CHOOSE i \in 1..Len(gs) :
             /\ c \in Members(gs[i].coinSymbols)
             /\ \A j \in 1..(i - 1) : c \notin Members(gs[j].coinSymbols)
    ELSE 0

\* coinSymbols.filter(s => s !== c)
Without(q, c) == SelectSeq(q, LAMBDA x : x # c)

\* updated.splice(k - 1, 0, c): c is put in front of the k-th entry.
Splice(q, k, c) == SubSeq(q, 1, k - 1) \o <<c>> \o SubSeq(q, k, Len(q))

\* arrayMove(q, from - 1, to - 1)
arrayMove(q, from, to) ==
    Splice(SubSeq(q, 1, from - 1) \o SubSeq(q, from + 1, Len(q)), to, q[from])

\* The groups the sidebar shows: those with a tracked coin.
Displayed(u, i) == Members(u.groups[i].coinSymbols) \cap u.trackedCoins # {}

\* createGroup with the coins selected in the modal, which lists the tracked coins.
CreateGroup(cs) ==
    /\ cs \subseteq ui.trackedCoins
    /\ CustomIds \ GroupIds(ui.groups) # {}
    /\ ui' = GroupEffects(
                 [ui EXCEPT !.groups =
                     Append(@, [id |-> CHOOSE id \in CustomIds \ GroupIds(ui.groups) : TRUE,
                                coinSymbols |-> SeqOf(cs)])])
    /\ UNCHANGED <<coins, market_data, now, cycles, pending, res, nreq, pager, proc, call>>

\* updateGroup from the modal of the i-th group, with the coins selected in it.
UpdateGroup(i, cs) ==
    /\ i \in 1..Len(ui.groups)
    /\ cs \subseteq ui.trackedCoins
    /\ ui' = GroupEffects([ui EXCEPT !.groups[i].coinSymbols = SeqOf(cs)])
    /\ UNCHANGED <<coins, market_data, now, cycles, pending, res, nreq, pager, proc, call>>

\* deleteGroup of the i-th group: its coins go to the default group, if there is one,
\* unless that group lists them.
DeleteGroup(i) ==
    /\ i \in 1..Len(ui.groups)
    /\ ui.groups[i].id # DEFAULT_GROUP_ID
    /\ LET deleted == ui.groups[i].coinSymbols
           filtered == SubSeq(ui.groups, 1, i - 1) \o SubSeq(ui.groups, i + 1, Len(ui.groups))
       IN  ui' = GroupEffects(
                     [ui EXCEPT !.groups =
                         [j \in 1..Len(filtered) |->
                             IF filtered[j].id = DEFAULT_GROUP_ID
                             THEN [filtered[j] EXCEPT !.coinSymbols =
                                      @ \o SelectSeq(deleted, LAMBDA c : c \notin Members(@))]
                             ELSE filtered[j]]])
    /\ UNCHANGED <<coins, market_data, now, cycles, pending, res, nreq, pager, proc, call>>

\* handleDragEnd with the coin dropped on the header of the i-th group.
DropOnGroup(coin, i) ==
    /\ coin \in ui.trackedCoins
    /\ i \in 1..Len(ui.groups) /\ Displayed(ui, i)
    /\ LET src == FindGroupWith(ui.groups, coin)
       IN  /\ src # 0
           /\ src # i
           /\ ui' = GroupEffects(
                        [ui EXCEPT !.groups =
                            [j \in 1..Len(@) |->
                                IF j = src
                                THEN [@[j] EXCEPT !.coinSymbols = Without(@, coin)]
                                ELSE IF j = i /\ coin \notin Members(@[j].coinSymbols)
                                THEN [@[j] EXCEPT !.coinSymbols = Append(@, coin)]
                                ELSE @[j]]])
    /\ UNCHANGED <<coins, market_data, now, cycles, pending, res, nreq, pager, proc, call>>

\* handleDragEnd with the coin dropped on another coin: moved within its group, or taken
\* out of its group and put in front of the other coin in the group of that coin.
DropOnCoin(coin, over) ==
    /\ coin \in ui.trackedCoins /\ over \in ui.trackedCoins
    /\ coin # over
    /\ LET src == FindGroupWith(ui.groups, coin)
           tgt == FindGroupWith(ui.groups, over)
       IN  /\ src # 0 /\ tgt # 0
           /\ src # tgt => Len(ui.groups[tgt].coinSymbols) < MaxListed
           /\ ui' = GroupEffects(
                        [ui EXCEPT !.groups =
                            [j \in 1..Len(@) |->
                                IF src = tgt
                                THEN IF j = src
                                     THEN [@[j] EXCEPT !.coinSymbols =
                                              arrayMove(@, IndexOf(@, coin), IndexOf(@, over))]
                                     ELSE @[j]
                                ELSE IF j = src
                                THEN [@[j] EXCEPT !.coinSymbols = Without(@, coin)]
                                ELSE IF j = tgt
                                THEN [@[j] EXCEPT !.coinSymbols =
                                         Splice(@, IndexOf(@, over), coin)]
                                ELSE @[j]]])
    /\ UNCHANGED <<coins, market_data, now, cycles, pending, res, nreq, pager, proc, call>>

\* A backend without coins: the user starts with the empty sidebar.
InitGroups ==
    /\ coins = {}
    /\ market_data = EmptyTable
    /\ now = StartTime
    /\ cycles = <<>>
    /\ pending = {}
    /\ res = NoResponse
    /\ nreq = 0
    /\ pager = IdlePager
    /\ proc = "serving"
    /\ ui = IdleUi
    /\ call = NoCall

NextGroups ==
    \/ \E up \in BOOLEAN : AppInit(up)
    \/ \E s \in {"A", "B"}, up \in BOOLEAN : AddCoinCall(s, up)
    \/ \E up \in BOOLEAN : AddCoinLoads(up)
    \/ \E s \in {"A", "B"}, up \in BOOLEAN : RemoveCoin(s, up)
    \/ \E cs \in SUBSET {"A", "B"} : CreateGroup(cs)
    \/ \E i \in 1..(MaxGroups + 1), cs \in SUBSET {"A", "B"} : UpdateGroup(i, cs)
    \/ \E i \in 1..(MaxGroups + 1) : DeleteGroup(i)
    \/ \E s \in {"A", "B"}, i \in 1..(MaxGroups + 1) : DropOnGroup(s, i)
    \/ \E s \in {"A", "B"}, o \in {"A", "B"} : DropOnCoin(s, o)

SpecGroups == InitGroups /\ [][NextGroups]_vars

----------------------------------------------------------------------------
(* C1 *)

\* The row stored under a key that is stored once.
RowAt(md, symbol, ts) ==
    CHOOSE r \in {RowsOf(md, symbol)[i] : i \in 1..Len(RowsOf(md, symbol))} : r.timestamp = ts

KeyFree(md, symbol, ts) == RowCount(md, symbol, ts) = 0

\* The step leaves one row under the key of point: point itself when the key was free,
\* the row that was there when it was taken.
FirstWriteKept(symbol, point) ==
    /\ RowCount(market_data', symbol, point.timestamp) = 1
    /\ toPoint(RowAt(market_data', symbol, point.timestamp)) =
           IF KeyFree(market_data, symbol, point.timestamp)
           THEN point
           ELSE toPoint(RowAt(market_data, symbol, point.timestamp))

\* C1 (idempotent upsert, first write wins): every storePoint the store executes for a
\* sample of a tracked symbol, from any of its three callers, leaves exactly one row
\* under the sample's (symbol, timestamp): the sample when the key was free, and the
\* row already there, with its price, openInterest and fundingRate, when it was not.
\* So storePoint(A) followed by storePoint(B) on one key leaves one row, that of A.
C1_FirstWriteWins ==
    [][ /\ \A b \in BodiesOf(WriteSymbols) \cup UpsertBodies :
              (PostMarketData(b, TRUE) /\ ~missingFields(b) /\ ForeignKeyOk(coins, b.symbol))
                  => FirstWriteKept(b.symbol, b.point)
        /\ \A p \in pending :
              (PostFetchStore(p, TRUE) /\ ForeignKeyOk(coins, p.symbol))
                  => FirstWriteKept(p.symbol, p.point)
        /\ \A c \in DOMAIN cycles, s \in Symbols :
              (TaskStore(c, s, TRUE) /\ ForeignKeyOk(coins, s))
                  => FirstWriteKept(s, cycles[c].tasks[s].point)
      ]_vars

\* A fetch-now sample was stored with success under a key that holds other values:
\* the second write was acknowledged and the first one kept.
C1_Witness ==
    /\ res.route = "POST /api/market-data/fetch"
    /\ res.status = 200
    /\ RowCount(market_data, "A", res.body.timestamp) = 1
    /\ toPoint(RowAt(market_data, "A", res.body.timestamp)) # res.body
    /\ toPoint(RowAt(market_data, "A", res.body.timestamp)).price = V1.price
    /\ res.body.price = V2.price

----------------------------------------------------------------------------
(* C2 *)

UniqueKeys ==
    \A s \in Symbols : \A i, j \in 1..Len(market_data[s]) :
        market_data[s][i].timestamp = market_data[s][j].timestamp => i = j

\* C2 (concurrent upserts): under every interleaving of the upserts of one
\* (symbol, timestamp) issued by the tasks of overlapping fetch cycles, by
\* POST /api/market-data and by POST /api/market-data/fetch, no reachable state holds
\* two rows with the same key, one row is under the key after each of them, and an
\* upsert that finds the key taken ends in success, not in an error.
C2_ConcurrentUpserts ==
    /\ []UniqueKeys
    /\ [][ /\ \A b \in UpsertBodies :
                 (PostMarketData(b, TRUE) /\ ~missingFields(b) /\ "A" \in coins)
                     => /\ RowCount(market_data', "A", b.point.timestamp) = 1
                        /\ res'.status = 201
           /\ \A p \in pending :
                 (PostFetchStore(p, TRUE) /\ p.symbol \in coins)
                     => /\ RowCount(market_data', p.symbol, p.point.timestamp) = 1
                        /\ res'.status = 200
           /\ \A c \in DOMAIN cycles :
                 (TaskStore(c, "A", TRUE) /\ "A" \in coins)
                     => /\ RowCount(market_data', "A", cycles[c].tasks["A"].point.timestamp) = 1
                        /\ cycles'[c].tasks["A"].st = "stored"
         ]_vars

\* The tasks of two overlapping cycles have both stored samples of the same key with
\* different values, and one row is under the key.
C2_Witness ==
    /\ \A c \in {1, 2} : cycles[c].pc = "running" /\ cycles[c].tasks["A"].st = "stored"
    /\ cycles[1].tasks["A"].point.timestamp = cycles[2].tasks["A"].point.timestamp
    /\ cycles[1].tasks["A"].point # cycles[2].tasks["A"].point
    /\ RowCount(market_data, "A", cycles[1].tasks["A"].point.timestamp) = 1

----------------------------------------------------------------------------
(* C10 *)

TaskSt(cs, c, s) == IF s \in DOMAIN cs[c].tasks THEN cs[c].tasks[s].st ELSE "none"

\* C10 (cycle isolation): in a fetch cycle over the symbol snapshot S, a task whose
\* fetch and upsert succeed leaves a sample with its fresh capture time in the store;
\* a task that fails, at fetch or at store, leaves the cycle running and every other
\* task of the cycle as it was; and the cycle ends only when every task has settled.
C10_CycleIsolation ==
    [][ \A c \in DOMAIN cycles :
           /\ \A s \in Symbols :
                 /\ (TaskSt(cycles, c, s) = "storing" /\ TaskSt(cycles', c, s) = "stored")
                        => /\ RowCount(market_data', s, cycles[c].tasks[s].point.timestamp) = 1
                           /\ cycles[c].tasks[s].point.timestamp >= StartTime
                 /\ (TaskSt(cycles, c, s) \in {"fetching", "storing"}
                        /\ TaskSt(cycles', c, s) # TaskSt(cycles, c, s))
                        => /\ cycles'[c].pc = "running"
                           /\ DOMAIN cycles'[c].tasks = DOMAIN cycles[c].tasks
                           /\ \A t \in DOMAIN cycles[c].tasks \ {s} :
                                  cycles'[c].tasks[t] = cycles[c].tasks[t]
           /\ (cycles[c].pc = "running" /\ cycles'[c].pc # "running")
                  => \A s \in DOMAIN cycles[c].tasks : Settled(cycles[c].tasks[s])
      ]_vars

\* In a running cycle over {A, B}, A's fetch has failed and B's sample is stored.
C10_Witness ==
    /\ cycles[1].pc = "running"
    /\ DOMAIN cycles[1].tasks = {"A", "B"}
    /\ cycles[1].tasks["A"].st = "failed"
    /\ cycles[1].tasks["B"].st = "stored"
    /\ RowCount(market_data, "B", cycles[1].tasks["B"].point.timestamp) = 1

----------------------------------------------------------------------------
(* What the queries are expected to return, stated on the stored keys *)

\* The timestamps stored for symbol, and those below a cursor.
TimesOf(symbol) == StoredTimes(market_data, symbol)
TimesBelow(symbol, cursor) == {t \in TimesOf(symbol) : t < cursor}

\* The k largest members of a set of timestamps.
Largest(T, k) == {t \in T : Cardinality({u \in T : u > t}) < k}

BodyTimes(body) == {body[i].timestamp : i \in 1..Len(body)}

StrictlyAscending(body) ==
    \A i \in 1..(Len(body) - 1) : body[i].timestamp < body[i + 1].timestamp

\* Every point of body is a stored sample of symbol.
FromStore(symbol, body) ==
    \A i \in 1..Len(body) :
        \E j \in 1..Len(RowsOf(market_data, symbol)) :
            body[i] = toPoint(RowsOf(market_data, symbol)[j])

\* body is exactly the samples of symbol with the timestamps T, oldest first.
IsSlice(body, symbol, T) ==
    /\ BodyTimes(body) = T
    /\ StrictlyAscending(body)
    /\ FromStore(symbol, body)

GetAnswered == res.route = "GET /api/market-data" /\ res.status = 200

----------------------------------------------------------------------------
(* C3 *)

\* C3 (cursor contiguity): when a client pages backwards from a numeric cursor over an
\* unchanged store, with L the limit the handler uses (the requested limit when it is
\* within 1..500), the first page is exactly the min(L, i-1) samples immediately below
\* the cursor, and after n pages the client holds exactly the min(n*L, i-1) samples
\* immediately below the cursor, each once and oldest first: no gap, no overlap.
C3_CursorContiguity ==
    (pager.active /\ pager.first.before.kind = "int") =>
        LET T == TimesBelow(pager.first.symbol, pager.first.before.val)
            L == limitOf(pager.first)
        IN  IsSlice(pager.got, pager.first.symbol, Largest(T, pager.pages * L))

\* Two pages of one sample each fetched below a stored cursor, with older samples left.
C3_Witness ==
    /\ pager.active
    /\ pager.first.before.kind = "int"
    /\ pager.first.limit = IntParam(1)
    /\ pager.first.before.val \in TimesOf(pager.first.symbol)
    /\ pager.pages = 2
    /\ Len(pager.got) = 2
    /\ BodyTimes(pager.got) = TimesBelow(pager.first.symbol, pager.first.before.val)

----------------------------------------------------------------------------
(* C4 *)

\* C4 (before): a successful GET with a numeric before returns only samples of the
\* requested symbol with timestamp strictly below the cursor; when more than limit
\* such samples exist it returns the limit ones with the largest timestamps; in
\* ascending order.  limit is the handler's limit.
C4_BeforeClosest ==
    (GetAnswered /\ ~beforeOf(res.req).null) =>
        IsSlice(res.body, res.req.symbol,
                Largest(TimesBelow(res.req.symbol, beforeOf(res.req).num.val),
                        limitOf(res.req)))

\* More samples below the cursor than the limit: the oldest one is left out.
C4_Witness ==
    /\ GetAnswered
    /\ res.req.before.kind = "int"
    /\ res.req.limit = IntParam(2)
    /\ Cardinality(TimesBelow(res.req.symbol, res.req.before.val)) = 3
    /\ BodyTimes(res.body) = {2, 3}

----------------------------------------------------------------------------
(* C5 *)

\* C5 (latest): a successful GET without before returns the min(limit, n) samples of
\* the requested symbol with the largest timestamps, all n of them when n is below the
\* limit, and no sample of another symbol.  limit is the handler's limit.
C5_Latest ==
    (GetAnswered /\ beforeOf(res.req).null) =>
        /\ IsSlice(res.body, res.req.symbol, Largest(TimesOf(res.req.symbol), limitOf(res.req)))
        /\ Len(res.body) = Min(limitOf(res.req), Cardinality(TimesOf(res.req.symbol)))

\* Three samples stored for A and three for B, limit 2: the two newest of A come back.
C5_Witness ==
    /\ GetAnswered
    /\ res.req.before = Absent
    /\ res.req.symbol = "A"
    /\ res.req.limit = IntParam(2)
    /\ TimesOf("A") = {1, 2, 3}
    /\ Cardinality(TimesOf("B")) >= 3
    /\ BodyTimes(res.body) = {2, 3}

----------------------------------------------------------------------------
(* C6 *)

\* C6 (ordering): every list GET /api/market-data returns, with or without before, is
\* strictly ascending by timestamp, so no timestamp occurs twice in it.
C6_Ordering == GetAnswered => StrictlyAscending(res.body)

\* A list of three samples was returned.
C6_Witness == GetAnswered /\ Len(res.body) = 3

----------------------------------------------------------------------------
(* C7 *)

\* The limit parses to a negative number: the statement gets a negative LIMIT.
NegativeLimit(req) == ~parseInt(req.limit).nan /\ parseInt(req.limit).val < 0

\* before is given and is not a number: the statement gets NaN for a bigint.
NonNumericBefore(req) == ~beforeOf(req).null /\ beforeOf(req).num.nan

\* C7 (limit clamping): for every requested limit value, including values above 500,
\* GET /api/market-data for a valid symbol, with before absent or numeric, returns at
\* most 500 samples and answers with success, never an error.
C7_Clamping ==
    ( /\ res.route = "GET /api/market-data"
      /\ res.req.symbol # NoSymbol
      /\ ~NonNumericBefore(res.req) ) =>
        (res.status = 200 /\ Len(res.body) <= MAX_LIMIT)

\* The same requests without the negative limits: at most 500 samples, with success.
ClampingOfNonNegativeLimits ==
    ( /\ res.route = "GET /api/market-data"
      /\ res.req.symbol # NoSymbol
      /\ ~NonNumericBefore(res.req)
      /\ ~NegativeLimit(res.req) ) =>
        (res.status = 200 /\ Len(res.body) <= MAX_LIMIT)

\* 501 samples stored, 501 requested: 500 returned.
ClampedAtMaxLimit ==
    /\ GetAnswered
    /\ res.req.limit = IntParam(MAX_LIMIT + 1)
    /\ Cardinality(TimesOf(res.req.symbol)) = MAX_LIMIT + 1
    /\ Len(res.body) = MAX_LIMIT

----------------------------------------------------------------------------
(* C8 *)

\* The limit parameter is given and is not a positive integer.
InvalidLimit(req) ==
    req.limit.kind # "absent" /\ (parseInt(req.limit).nan \/ parseInt(req.limit).val <= 0)

\* C8 (validation): GET /api/market-data with a missing symbol or an invalid limit is
\* rejected and makes no store query.
C8_Validation ==
    ( /\ res.route = "GET /api/market-data"
      /\ (res.req.symbol = NoSymbol \/ InvalidLimit(res.req)) ) =>
        (res.status = 400 /\ ~res.queried)

----------------------------------------------------------------------------
(* C9 *)

\* The samples of symbol with start <= timestamp <= end, oldest first.
InRange(symbol, start, end) ==
    MapToPoint(SelectSeq(RowsOf(market_data, symbol),
                         LAMBDA r : start <= r.timestamp /\ r.timestamp <= end))

\* C9 (range): GET /api/market-data/range with bounds start and end returns all stored
\* samples of the symbol with timestamps in [start, end].
C9_Range ==
    (res.route = RangeRoute) =>
        /\ res.status = 200
        /\ res.body = InRange(res.req.symbol, res.req.start, res.req.end)

----------------------------------------------------------------------------
(* C11 *)

Running == {c \in DOMAIN cycles : cycles[c].pc = "running"}

\* C11 (no overlapping cycles): at no time are two runs of runFetchCycle in progress;
\* a run starts only after the previous one has completed.
C11_NoOverlap == Cardinality(Running) <= 1

----------------------------------------------------------------------------
(* C12 *)

SevenDaysMs == 604800000

\* The step in which the cycle c has its DELETE executed and returns.
Swept(c) == cycles[c].pc = "running" /\ cycles'[c].pc = "done"

\* C12 (retention): right after the sweeper's delete with cutoff c, no stored sample
\* of any symbol, in the cycle's snapshot or not, has timestamp < c, and every sample
\* that had timestamp >= c is still stored with the same values, nothing else being
\* stored; c is the clock read after the per-symbol work, minus 7 days.
C12_Retention ==
    [][ \A c \in DOMAIN cycles : Swept(c) =>
          LET cutoff == now - SevenDaysMs
          IN  /\ \A s \in DOMAIN cycles[c].tasks :
                    /\ Settled(cycles[c].tasks[s])
                    /\ cycles[c].tasks[s].point.timestamp <= now
              /\ \A s \in Symbols :
                    /\ \A i \in 1..Len(market_data'[s]) :
                          /\ market_data'[s][i].timestamp >= cutoff
                          /\ \E j \in 1..Len(market_data[s]) :
                                 market_data[s][j] = market_data'[s][i]
                    /\ \A j \in 1..Len(market_data[s]) :
                          market_data[s][j].timestamp >= cutoff =>
                              \E i \in 1..Len(market_data'[s]) :
                                  market_data'[s][i] = market_data[s][j]
      ]_vars

\* A sweep with cutoff 2 has run: the sample of B posted with timestamp 1, a symbol
\* tracked after the cycle was started, is gone, and A's row at the cutoff is kept.
C12_Witness ==
    /\ cycles[1].pc = "done"
    /\ now - SevenDaysMs = 2
    /\ res.route = "POST /api/market-data" /\ res.status = 201
    /\ res.body = [symbol |-> "B", timestamp |-> 1]
    /\ RowCount(market_data, "B", 1) = 0
    /\ RowCount(market_data, "A", 1) = 0
    /\ RowCount(market_data, "A", 2) = 1

----------------------------------------------------------------------------
(* C13 *)

AllSettled(c) ==
    cycles[c].pc = "running" /\ \A s \in DOMAIN cycles[c].tasks : Settled(cycles[c].tasks[s])

\* Once its tasks have settled, whatever their outcomes and also when there are none,
\* the cycle's next step is the sweeper's delete.
SweepFollows == \A c \in DOMAIN cycles : AllSettled(c) => ENABLED CyclePrune(c, TRUE)

\* A cycle that has read its symbols returns only through the sweeper's delete: the
\* rows older than the cutoff are gone, or the store has failed the statement.
ReturnsBySweep ==
    \A c \in DOMAIN cycles :
        (cycles[c].pc = "running" /\ cycles'[c].pc # "running") =>
            /\ AllSettled(c)
            /\ \/ /\ cycles'[c].pc = "done"
                  /\ market_data' = DeleteOlderThan(market_data, now - RETENTION_MS)
               \/ /\ cycles'[c].pc = "failed"
                  /\ market_data' = market_data

\* C13 (sweeper runs in every cycle): in every fetch cycle that has read its symbol
\* set the sweeper's delete comes after the ingestion, also when every per-symbol
\* fetch failed and when the symbol set is empty: it is the cycle's next step once the
\* tasks have settled, and the cycle does not return without it.
C13_SweepEveryCycle == [](SweepFollows) /\ [][ReturnsBySweep]_vars

\* A and B were in the snapshot and never removed, nothing was stored, and the cycle
\* has returned after its delete: both fetches failed and the sweeper ran.
C13_Witness ==
    /\ cycles[1].pc = "done"
    /\ coins = {"A", "B"}
    /\ nreq = 0
    /\ market_data = EmptyTable

----------------------------------------------------------------------------
(* C14 *)

Returned(c) == cycles[c].pc \in {"done", "failed"}

\* C14 (sweep after ingestion): within a cycle the sweeper's delete is issued only
\* when every per-symbol fetch+store of that cycle has settled, with success or with
\* failure, and no per-symbol step of the cycle, so no upsert, comes after the delete.
C14_SweepAfterSettle ==
    [][ \A c \in DOMAIN cycles :
           /\ (cycles[c].pc = "running" /\ Returned(c)')
                  => \A s \in DOMAIN cycles[c].tasks : Settled(cycles[c].tasks[s])
           /\ \A s \in Symbols :
                  (TaskSt(cycles, c, s) # TaskSt(cycles', c, s) /\ TaskSt(cycles, c, s) # "none")
                      => (cycles[c].pc = "running" /\ ~Settled(cycles[c].tasks[s]) /\ ~Returned(c)')
                         \/ (cycles[c].pc = "running" /\ Settled(cycles[c].tasks[s]) /\ Returned(c)')
           /\ Returned(c) => (cycles'[c] = cycles[c] /\ DOMAIN cycles[c].tasks = {})
      ]_vars

\* A cycle has returned after its delete, with the samples of A and of B stored before.
C14_Witness ==
    /\ cycles[1].pc = "done"
    /\ Len(market_data["A"]) >= 1
    /\ Len(market_data["B"]) >= 1
    /\ coins = {"A", "B"}

----------------------------------------------------------------------------
(* C15 *)

\* The timer's next call of runFetchCycle can start its run.
NextStarts ==
    \A c \in DOMAIN cycles :
        (cycles[c].pc = "failed" /\ c + 1 \in DOMAIN cycles /\ cycles[c + 1].pc = "idle"
           /\ \A d \in 1..(c - 1) : cycles[d].pc # "idle")
            => ENABLED StartCycle(c + 1, TRUE)

\* The step in which the cycle c fails: its symbol-set read, or its delete.
Aborts(c) == cycles[c].pc # "failed" /\ cycles'[c].pc = "failed"

\* The error stays in runFetchCycle: the cycle ends as failed, the failing call stores
\* and removes nothing, and the other cycles and the requests in flight are untouched.
AbortIsLocal(c) ==
    Aborts(c) =>
        /\ market_data' = market_data
        /\ DOMAIN cycles'[c].tasks = {}
        /\ \A d \in DOMAIN cycles \ {c} : cycles'[d] = cycles[d]
        /\ UNCHANGED <<coins, pending, res, nreq>>

\* An aborted cycle takes no further step.
AbortIsFinal(c) == cycles[c].pc = "failed" => cycles'[c] = cycles[c]

\* The cycle c has stored a sample.
HasStored(c) == \E s \in DOMAIN cycles[c].tasks : cycles[c].tasks[s].st = "stored"

\* C15 as stated (a store failure aborts only that cycle): a failure of the symbol-set
\* read, or of any other store call in the cycle, aborts only that cycle: the error
\* does not leave runFetchCycle, no sample is stored by the aborted cycle, and a
\* later cycle is still started.
C15_AsStated ==
    /\ []NextStarts
    /\ [][ \A c \in DOMAIN cycles :
              AbortIsLocal(c) /\ AbortIsFinal(c) /\ (Aborts(c) => ~HasStored(c)) ]_vars

\* C15 amended (a store failure aborts only that cycle): a failure of the symbol-set
\* read, or of the cycle's delete, aborts only that cycle: the error does not leave
\* runFetchCycle, no sample is stored by a cycle aborted at its symbol-set read (a
\* cycle aborted at its delete keeps the samples it stored before), and a later
\* cycle is still started.
C15_AbortOnlyThatCycle ==
    /\ []NextStarts
    /\ [][ \A c \in DOMAIN cycles :
              /\ AbortIsLocal(c)
              /\ AbortIsFinal(c)
              /\ (Aborts(c) /\ cycles[c].pc = "idle") => ~HasStored(c)
              /\ (Aborts(c) /\ cycles[c].pc # "idle") => AllSettled(c)
         ]_vars

\* The first cycle's symbol-set read failed and nothing was stored; the second cycle
\* was started afterwards and has stored its sample.
C15_Witness ==
    /\ cycles[1].pc = "failed"
    /\ cycles[2].pc = "running"
    /\ cycles[2].tasks["A"].st = "stored"
    /\ nreq = 0
    /\ Len(market_data["A"]) = 1

----------------------------------------------------------------------------
(* C16 *)

\* The symbols the cycle c fetches.
Snapshot(cs, c) == DOMAIN cs[c].tasks

\* C16 (symbol-set snapshot): the symbols a cycle fetches are exactly the registry
\* content at its one registry read, whatever an earlier cycle fetched; they do not
\* change while the cycle runs, so a symbol added meanwhile is not fetched by it, and
\* the next cycle reads the registry again, so it fetches the added symbol and does not
\* fetch a removed one; a sample is stored only for a symbol of a running snapshot.
C16_Snapshot ==
    [][ /\ \A c \in DOMAIN cycles :
              /\ (cycles[c].pc = "idle" /\ cycles'[c].pc = "running")
                     => (Snapshot(cycles', c) = coins /\ coins' = coins)
              /\ (cycles[c].pc = "running" /\ cycles'[c].pc = "running")
                     => Snapshot(cycles', c) = Snapshot(cycles, c)
              /\ cycles[c].pc \in {"idle", "done", "failed"} => Snapshot(cycles, c) = {}
        /\ \A s \in Symbols :
              Len(market_data'[s]) > Len(market_data[s])
                  => \E c \in DOMAIN cycles :
                         /\ s \in Snapshot(cycles, c)
                         /\ cycles[c].tasks[s].st = "storing"
                         /\ cycles'[c].tasks[s].st = "stored"
      ]_vars

\* B was added while the first cycle, which read {A}, is running: the first cycle
\* has settled A and has no task for B, the second cycle read {A, B} and has fetched B.
C16_Witness ==
    /\ coins = {"A", "B"}
    /\ cycles[1].pc = "running" /\ Snapshot(cycles, 1) = {"A"}
    /\ cycles[1].tasks["A"].st = "stored"
    /\ cycles[2].pc = "running" /\ Snapshot(cycles, 2) = {"A", "B"}
    /\ cycles[2].tasks["B"].st = "stored"

----------------------------------------------------------------------------
(* C17 *)

\* The three requests are answered, each with a status in 200..299.
AllSucceed(o) == o.answered /\ \A i \in 1..3 : o.statuses[i] >= 200 /\ o.statuses[i] <= 299

\* Some request is answered with a status outside 200..299.
SomeRefused(o) == o.answered /\ \E i \in 1..3 : o.statuses[i] < 200 \/ o.statuses[i] > 299

\* What the handler of POST /api/market-data/fetch does with the outcome r: it goes on
\* to store the sample, or answers 500 with the error.
Handled(s, r) ==
    IF r.kind = "sample"
    THEN [symbol |-> s, point |-> r.point] \in pending'
    ELSE res'.status = 500 /\ res'.body = r.error /\ pending' = pending

\* With SomeRefused: an error that carries the three status codes, and no sample.
Refusal(o, r) ==
    SomeRefused(o) => (r.kind = "error" /\ r.error.statuses = o.statuses /\ r.point = <<>>)

----------------------------------------------------------------------------
(* C18 *)

\* The acknowledgment of POST /api/market-data for the request body b.
Acknowledged(r, b) ==
    /\ r.route = "POST /api/market-data"
    /\ r.req = b
    /\ r.status = 201
    /\ r.body = [symbol |-> b.symbol, timestamp |-> b.point.timestamp]

\* C18: POST /api/market-data with all fields present, for a tracked symbol and with
\* the database up, is acknowledged with 201 both when no row existed for
\* (symbol, timestamp) and when one already existed; with a key already taken the
\* response is never an error, and the store is left as it was.
C18_DuplicateAcknowledged ==
    [][ \A b \in UpsertBodies :
           (PostMarketData(b, TRUE) /\ ~missingFields(b) /\ b.symbol \in coins) =>
               /\ Acknowledged(res', b)
               /\ KeyFree(market_data, b.symbol, b.point.timestamp) =>
                      RowCount(market_data', b.symbol, b.point.timestamp) = 1
               /\ ~KeyFree(market_data, b.symbol, b.point.timestamp) =>
                      (res'.status < 400 /\ market_data' = market_data)
      ]_vars

\* A sample was acknowledged whose key was already taken: the row under its key holds
\* other values than the acknowledged request.
C18_Witness ==
    /\ res.route = "POST /api/market-data"
    /\ res.status = 201
    /\ res.req.has = BodyFields
    /\ RowCount(market_data, res.req.symbol, res.req.point.timestamp) = 1
    /\ toPoint(RowAt(market_data, res.req.symbol, res.req.point.timestamp)) # res.req.point

----------------------------------------------------------------------------
(* C19 *)

\* The values of a row, without its key.
ValuesOf(r) == [price |-> r.price, openInterest |-> r.open_interest, fundingRate |-> r.funding_rate]

\* Some stored row of symbol holds the values of point under another timestamp.
SameValuesStored(md, symbol, point) ==
    \E k \in 1..Len(RowsOf(md, symbol)) :
        /\ ValuesOf(RowsOf(md, symbol)[k]) = ValuesOf(toRow(symbol, point))
        /\ RowsOf(md, symbol)[k].timestamp # point.timestamp

\* The store holds exactly two rows of A, with distinct timestamps and identical values.
TwoEqualRows(md) ==
    /\ Len(RowsOf(md, "A")) = 2
    /\ RowsOf(md, "A")[1].timestamp < RowsOf(md, "A")[2].timestamp
    /\ ValuesOf(RowsOf(md, "A")[1]) = ValuesOf(RowsOf(md, "A")[2])

\* C19: deduplication is by key, not by value: when a cycle's upsert for a symbol
\* succeeds on a capture timestamp not yet stored, a row is added although a row with
\* identical price, open interest and funding rate is stored under another timestamp,
\* and every row that was there stays; and with two such rows stored, latest(symbol, 10)
\* returns exactly these two rows in ascending timestamp order.
C19_DedupByKey ==
    [][ /\ \A c \in DOMAIN cycles :
              (TaskSt(cycles, c, "A") = "storing" /\ TaskSt(cycles', c, "A") = "stored"
                  /\ KeyFree(market_data, "A", cycles[c].tasks["A"].point.timestamp)
                  /\ SameValuesStored(market_data, "A", cycles[c].tasks["A"].point))
                  => /\ Len(RowsOf(market_data', "A")) = Len(RowsOf(market_data, "A")) + 1
                     /\ RowCount(market_data', "A", cycles[c].tasks["A"].point.timestamp) = 1
                     /\ toPoint(RowAt(market_data', "A", cycles[c].tasks["A"].point.timestamp))
                            = cycles[c].tasks["A"].point
                     /\ \A k \in 1..Len(RowsOf(market_data, "A")) :
                            RowAt(market_data', "A", RowsOf(market_data, "A")[k].timestamp)
                                = RowsOf(market_data, "A")[k]
        /\ (GetMarketData(Latest10, TRUE) /\ TwoEqualRows(market_data))
              => /\ res'.status = 200
                 /\ res'.body = <<toPoint(RowsOf(market_data, "A")[1]),
                                  toPoint(RowsOf(market_data, "A")[2])>>
                 /\ StrictlyAscending(res'.body)
      ]_vars

\* Two cycles have run to their end at distinct capture times with the same numbers,
\* two rows are stored, and the latest ten samples of A were answered with both.
C19_Witness ==
    /\ cycles[1].pc = "done" /\ cycles[2].pc = "done"
    /\ TwoEqualRows(market_data)
    /\ GetAnswered
    /\ res.req = Latest10
    /\ Len(res.body) = 2
    /\ res.body[1].timestamp < res.body[2].timestamp
    /\ [res.body[1] EXCEPT !.timestamp = 0] = [res.body[2] EXCEPT !.timestamp = 0]

----------------------------------------------------------------------------
(* C20 *)

\* Every stored sample belongs to a symbol of the coins registry.
SamplesAreTracked == \A s \in DOMAIN market_data : market_data[s] # <<>> => s \in coins

\* DELETE /api/coins/:symbol, executed, leaves no sample of the symbol, untracks it
\* and keeps the samples of every other symbol.
DeleteRemovesSamples ==
    \A s \in {"A", "B"} :
        DeleteCoins(s, TRUE) =>
            /\ s \notin coins'
            /\ market_data'[s] = <<>>
            /\ \A t \in DOMAIN market_data \ {s} : market_data'[t] = market_data[t]

\* No step, of a fetch cycle or of a fetch-now request, stores a sample of a symbol
\* that is not tracked.
NoSampleOnceDeleted ==
    \A s \in DOMAIN market_data : s \notin coins' => market_data'[s] = <<>>

----------------------------------------------------------------------------
(* C21 *)

\* The response is an error of POST /api/market-data/fetch.
FetchNowError(r) == r.route = "POST /api/market-data/fetch" /\ r.status >= 400

\* C21 (fetch-now): POST /api/market-data/fetch performs one fetch and one upsert
\* outside the schedule, whatever the fetch cycles do; when it answers successfully the
\* body is the fetched sample and the store holds one row with the key (symbol,
\* returned timestamp); when the fetch fails it answers with an error without going on
\* to the upsert, and when the upsert fails it answers with an error; in both cases it
\* has stored no row.
C21_FetchNow ==
    [][ /\ \A s \in {"A", "B"}, o \in FetchOutcomes, v \in Vals :
              PostFetch(s, o, v) =>
                  /\ market_data' = market_data
                  /\ cycles' = cycles
                  /\ IF AllSucceed(o) /\ o.parsed
                     THEN pending' = pending \cup {[symbol |-> s, point |-> MkPoint(now, v)]}
                     ELSE FetchNowError(res') /\ pending' = pending
        /\ \A p \in pending, up \in BOOLEAN :
              PostFetchStore(p, up) =>
                  /\ p \notin pending'
                  /\ cycles' = cycles
                  /\ res'.route = "POST /api/market-data/fetch"
                  /\ res'.status = 200 =>
                         /\ res'.body = p.point
                         /\ RowCount(market_data', p.symbol, res'.body.timestamp) = 1
                  /\ res'.status # 200 => (FetchNowError(res') /\ market_data' = market_data)
                  /\ ~up => res'.status # 200
      ]_vars

\* Fetch-now answered with the sample it fetched, and the store holds it.
C21_Witness ==
    /\ res.route = "POST /api/market-data/fetch"
    /\ res.status = 200
    /\ pending = {}
    /\ \E s \in {"A", "B"} :
          /\ RowCount(market_data, s, res.body.timestamp) = 1
          /\ toPoint(RowAt(market_data, s, res.body.timestamp)) = res.body
          /\ \A t \in DOMAIN market_data \ {s} : market_data[t] = <<>>

----------------------------------------------------------------------------
(* C22 *)

\* Every row of md is in md2 as it is, or md2 has no row under its key.
KeptOrDeleted(md, md2) ==
    \A s \in DOMAIN md :
        \A k \in 1..Len(md[s]) :
            \/ RowCount(md2, s, md[s][k].timestamp) = 0
            \/ /\ RowCount(md2, s, md[s][k].timestamp) = 1
               /\ RowAt(md2, s, md[s][k].timestamp) = md[s][k]

\* C22 (samples are immutable): in every step of a cycle, an upsert, a fetch-now
\* request, a query or a prune, each stored (symbol, timestamp) row is either still
\* there with the same price, open interest and funding rate, or deleted; rows are
\* only created or deleted, and a query changes no row.
C22_Immutable ==
    [][ /\ KeptOrDeleted(market_data, market_data')
        /\ GetMarketData(Latest10, TRUE) => market_data' = market_data
      ]_vars

\* The row of A at timestamp 1, which held the first numbers, was deleted by the
\* sweep of a cycle and created again with the second numbers by a later post; the
\* old rows at 2 and 3 are as they were.
C22_Witness ==
    /\ cycles[1].pc = "done"
    /\ RowCount(market_data, "A", 1) = 1
    /\ ValuesOf(RowAt(market_data, "A", 1)) = V2
    /\ RowCount(market_data, "A", 2) = 1
    /\ RowAt(market_data, "A", 2) = RowAtTime("A", 2)
    /\ RowAt(market_data, "A", 3) = RowAtTime("A", 3)
    /\ ValuesOf(RowAtTime("A", 1)) = V1

----------------------------------------------------------------------------
(* C23 *)

\* The step handles an HTTP request or is a step of a fetch cycle.
ServesTraffic ==
    nreq' # nreq \/ res' # res \/ pending' # pending \/ cycles' # cycles

\* C23 (startup): no HTTP request is handled and no fetch cycle touches the store
\* before schema initialization has completed successfully, and when schema
\* initialization fails the process exits and does nothing afterwards.
C23_SchemaFirst ==
    [][ /\ ServesTraffic => proc = "serving"
        /\ (proc = "starting" /\ proc' # "starting") => proc' \in {"serving", "exited"}
        /\ proc = "exited" => vars' = vars
      ]_vars

----------------------------------------------------------------------------
(* C24 *)

\* The cycle c has returned.
Completed(c) == cycles[c].pc \in {"done", "failed"}

\* C24 (bounded fetch): every per-symbol operation started by a cycle eventually
\* settles even if the external source never answers, so every started cycle
\* eventually reaches its sweeper step and completes.
C24_CyclesComplete ==
    \A c \in 1..MaxCycles :
        /\ \A s \in {"A", "B"} :
              (cycles[c].pc = "running" /\ TaskSt(cycles, c, s) = "fetching")
                  ~> (Completed(c) \/ TaskSt(cycles, c, s) \in {"storing", "stored", "failed"})
        /\ (cycles[c].pc = "running") ~> Completed(c)

----------------------------------------------------------------------------
(* C25 *)

\* The samples on their way from fetchBinanceData to the store that this step adds.
Captured == pending' \ pending

\* C25 (capture time): a call of fetchBinanceData yields its sample in one step, after
\* the three responses and their three bodies have arrived; the sample has one
\* timestamp for its three metrics, the wall clock at that step, which is not earlier
\* than the arrival of any of the three responses or bodies nor than the call.
C25_CaptureTime ==
    [][ /\ Cardinality(Captured) <= 1
        /\ \A p \in Captured :
              /\ call.pc = "bodies" /\ call'.pc = "idle"
              /\ p.symbol = call.symbol
              /\ p.point = MkPoint(now, call.v)
              /\ \A i \in 1..3 :
                    /\ call.resAt[i] # 0 /\ call.bodyAt[i] # 0
                    /\ p.point.timestamp >= call.resAt[i]
                    /\ p.point.timestamp >= call.bodyAt[i]
              /\ p.point.timestamp >= call.calledAt
      ]_vars

\* A sample was captured after the clock had moved on from the arrival of the three
\* responses: it carries the later time, and is stored under it.
C25_Witness ==
    /\ call.pc = "idle"
    /\ call.resAt = <<StartTime, StartTime, StartTime>>
    /\ \E i \in 1..3 : call.bodyAt[i] = StartTime + 1
    /\ res.route = "POST /api/market-data/fetch"
    /\ res.status = 200
    /\ res.body = MkPoint(StartTime + 1, call.v)
    /\ RowCount(market_data, "A", StartTime + 1) = 1
    /\ RowCount(market_data, "A", StartTime) = 0
----------------------------------------------------------------------------
(* C26 *)

\* The timestamps of a sequence of points.
Stamps(s) == {s[i].timestamp : i \in 1..Len(s)}

\* C26 (merged client history): after any sequence of data-prop updates, loadMore
\* pages and range reads, allData and historicalData are strictly ascending by
\* timestamp, hence without a duplicate timestamp, and allData has a point for every
\* timestamp of historicalData and of the data prop.
C26_MergedHistoryOrdered ==
    /\ StrictlyAscending(allData(ui))
    /\ StrictlyAscending(ui.historicalData)
    /\ Stamps(allData(ui)) = Stamps(ui.historicalData) \cup Stamps(ui.data)

\* The loaded history and the data prop overlap, and the history holds a sample that
\* was back-filled between two pages.
C26_Witness ==
    /\ Len(ui.historicalData) = 3
    /\ Len(ui.data) >= 2
    /\ Stamps(ui.historicalData) \cap Stamps(ui.data) # {}
    /\ Len(allData(ui)) < Len(ui.historicalData) + Len(ui.data)
    /\ Len(allData(ui)) = 4

----------------------------------------------------------------------------
(* C27 *)

\* C27 (defensive cycle of the earlier server): for every symbol of the cycle's
\* snapshot whose fetch succeeds, the cycle inserts the coin row if it is missing
\* before it inserts the sample, and the sample insert, when the database executes
\* it, does not fail because the coin row is absent, even when the coin was deleted
\* after the snapshot was read.
C27_DefensiveCycle ==
    [][ \A c \in DOMAIN cycles, s \in {"A", "B"} :
           /\ EarlierEnsureCoin(c, s, TRUE) => s \in coins'
           /\ EarlierTaskStore(c, s, TRUE) =>
                  /\ TaskSt(cycles', c, s) = "stored"
                  /\ RowCount(market_data', s, cycles[c].tasks[s].point.timestamp) = 1
      ]_vars

----------------------------------------------------------------------------
(* C28 *)

\* The step is one of a run of runFetchCycle.
CycleStep == cycles' # cycles

----------------------------------------------------------------------------
(* C29 *)

\* The samples the cycle c has stored, by symbol: defined for the stored tasks.
StoredBy(c) == {s \in DOMAIN cycles[c].tasks : cycles[c].tasks[s].st = "stored"}

\* C29 (a cycle does not sweep its own samples): when the cycle lasts less than the
\* retention horizon, the capture time of every sample it stored is not older than
\* the cutoff, now minus seven days, that it computes after all its per-symbol
\* operations have settled, and its DELETE leaves the row of that sample in the store.
C29_OwnSamplesKept ==
    [][ \A c \in DOMAIN cycles :
           (Swept(c) /\ now - StartTime < SevenDaysMs) =>
               \A s \in StoredBy(c) :
                   /\ cycles[c].tasks[s].point.timestamp >= now - SevenDaysMs
                   /\ RowCount(market_data, s, cycles[c].tasks[s].point.timestamp) = 1
                          => /\ RowCount(market_data', s, cycles[c].tasks[s].point.timestamp) = 1
                             /\ RowAt(market_data', s, cycles[c].tasks[s].point.timestamp)
                                    = RowAt(market_data, s, cycles[c].tasks[s].point.timestamp)
      ]_vars

\* The cycle stored A's sample, the clock moved on, it stored B's sample and then
\* swept: both samples are in the store when it has returned.
C29_Witness ==
    /\ cycles[1].pc = "done"
    /\ now = StartTime + 1
    /\ RowCount(market_data, "A", StartTime) = 1
    /\ RowCount(market_data, "B", StartTime + 1) = 1
    /\ RowCount(market_data, "B", StartTime) = 0

----------------------------------------------------------------------------
(* C30 *)

\* The newest stored sample of A is in the client's marketData.
LatestShown(md, u) ==
    RowsOf(md, "A") # <<>> =>
        toPoint(RowsOf(md, "A")[Len(RowsOf(md, "A"))]) \in
            {u.marketData[i] : i \in 1..Len(u.marketData)}

\* C30 (end-to-end polling): in every poll made while the backend is running and
\* reachable the health check succeeds, the poll goes on to request the latest sample
\* of every tracked coin and sets isConnected to true, and afterwards the newest
\* sample the backend has stored for a tracked coin is in marketData for that coin.
C30_Polling ==
    [][ Poll(TRUE) =>
            /\ res'.route # HealthRoute \/ res'.status = 200
            /\ ui'.isConnected
            /\ "A" \in ui.trackedCoins =>
                   /\ res'.route = "GET /api/market-data"
                   /\ LatestShown(market_data, ui')
      ]_vars

----------------------------------------------------------------------------
(* C31 *)

\* The delay the backoff gives after k polls that failed in a row.
BackoffDelay(k) ==
    IF k = 1 THEN 5000 ELSE IF k = 2 THEN 15000 ELSE IF k = 3 THEN 30000 ELSE 60000

\* A poll ends in its catch branch: the health check or the request for a sample failed.
PollFails ==
    \E health \in HealthOutcomes, up \in BOOLEAN :
        /\ PollFetches(health, up)
        /\ health # 200 \/ (ui.poll.coins # {} /\ res'.status # 200)

----------------------------------------------------------------------------
(* C32 *)

\* A run of poll is in flight.
PollInFlight == ui.poll.pc # "idle"

\* A run of poll ends: by its return without coins, its try block or its catch branch.
PollEnds == PollInFlight /\ ui'.poll.pc = "idle"

\* C32 (poll loop): every run of poll schedules exactly one next run on each of its
\* exit paths (no coins, success, failure); while App is mounted exactly one poll is
\* pending as a timeout or in flight; after App has unmounted no further poll runs.
C32_PollLoop ==
    /\ [](ui.mounted => (ui.timer <=> ~PollInFlight))
    /\ [][ /\ PollEnds => ~ui.timer /\ ui'.timer
           /\ PollFires => ui.mounted
         ]_vars

----------------------------------------------------------------------------
(* C33 *)

\* The smallest of a non-empty set of timestamps.
Oldest(T) == CHOOSE t \in T : \A u \in T : t <= u

\* C33 (in-memory series): after init and any sequence of poll merges and addCoin
\* loads the series marketData holds for a symbol is strictly ascending by timestamp,
\* so without a duplicate timestamp, and has at most MAX_POINTS_IN_MEMORY = 120
\* points; a poll that adds a point to a full series drops the oldest point, and a poll
\* that returns a timestamp the series holds, or no point, leaves the series as it is.
C33_Series ==
    /\ [](/\ StrictlyAscending(ui.marketData)
          /\ Len(ui.marketData) <= MAX_POINTS_IN_MEMORY /\ MAX_POINTS_IN_MEMORY = 120)
    /\ [][ PollApplies =>
             LET held == Stamps(ui.marketData)
                 body == ui.poll.body
             IN  IF body = <<>> \/ body[1].timestamp \in held
                 THEN ui'.marketData = ui.marketData
                 ELSE /\ body[1] \in {ui'.marketData[i] : i \in 1..Len(ui'.marketData)}
                         \/ Len(ui.marketData) = MAX_POINTS_IN_MEMORY
                      /\ Stamps(ui'.marketData) =
                             IF Len(ui.marketData) < MAX_POINTS_IN_MEMORY
                             THEN held \cup {body[1].timestamp}
                             ELSE (held \cup {body[1].timestamp})
                                      \ {Oldest(held \cup {body[1].timestamp})}
         ]_vars

\* A poll has added the sample stored after the start to a full series: the oldest one
\* is gone and the new one is the last of 120.
C33_Witness ==
    /\ Len(ui.marketData) = MAX_POINTS_IN_MEMORY
    /\ ui.marketData[1].timestamp = 2
    /\ ui.marketData[MAX_POINTS_IN_MEMORY].timestamp = StartTime
    /\ ui.poll.pc = "idle" /\ ui.failed = 0 /\ ui.timer

----------------------------------------------------------------------------
(* C34 *)

\* A response of loadMore arrives that was requested for another symbol than the one
\* shown now.
StaleLoadArrives ==
    /\ \E up \in BOOLEAN : LoadMoreArrives(up)
    /\ res'.req.symbol # ui.symbol

\* C34 (history isolation): historicalData and earliestFetched hold data of the symbol
\* shown only; a response of loadMore or of the range read that was requested for one
\* symbol and arrives after the switch to another is not merged into the history of
\* the other and changes neither its cursor nor its loading flag.
C34_HistoryIsolated ==
    /\ [](/\ FromStore(ui.symbol, ui.historicalData)
          /\ ui.earliestFetched # Null => ui.earliestFetched \in StoredTimes(market_data, ui.symbol))
    /\ [][ StaleLoadArrives =>
             /\ ui'.historicalData = ui.historicalData
             /\ ui'.earliestFetched = ui.earliestFetched
             /\ ui'.isLoadingMore = ui.isLoadingMore
         ]_vars

----------------------------------------------------------------------------
(* C35 *)

----------------------------------------------------------------------------
(* C36 *)

\* A response of loadMore arrives with a page of samples.
PageArrives ==
    /\ \E up \in BOOLEAN : LoadMoreArrives(up)
    /\ res'.status = 200 /\ res'.body # <<>>

\* A response of loadMore arrives without a sample.
EmptyPageArrives ==
    /\ LoadMoreArrives(TRUE)
    /\ res'.status = 200 /\ res'.body = <<>>

----------------------------------------------------------------------------
(* C37 *)

\* C37 (every tracked coin is grouped): once the grouping effects have run, every
\* tracked coin is listed in at least one group, after any sequence of addCoin,
\* removeCoin, createGroup, updateGroup, deleteGroup and drag and drop, a custom group
\* created before the first coin is tracked included.
C37_EveryCoinGrouped == ui.trackedCoins \subseteq Grouped(ui.groups)

----------------------------------------------------------------------------
(* C38 *)

\* C38 (no coin twice in a group): no group lists the same coin twice in its
\* coinSymbols, after any sequence of addCoin, removeCoin, createGroup, updateGroup,
\* deleteGroup and moves of handleDragEnd, onto a group header or onto a coin of
\* another group, also when the coin is a member of the target group already.
C38_NoCoinTwice ==
    \A i \in 1..Len(ui.groups) :
        Len(ui.groups[i].coinSymbols) = Cardinality(Members(ui.groups[i].coinSymbols))

====
